---- MODULE Spec2Model ----
(***************************************************************************)
(* The CSV product import of product-importer: the upload handler          *)
(* (app/api/routes.py), the Celery task import_products_from_csv and its   *)
(* helpers (app/tasks/product_import.py), the job endpoints                *)
(* (app/api/jobs.py), the product create endpoint (app/api/products.py)    *)
(* and the Redis helpers (app/core/redis_client.py).                       *)
(*                                                                         *)
(* Text is a sequence of one-character strings, so that strip() and        *)
(* lower() are computed and not assumed.  The PostgreSQL tables are sets   *)
(* of rows; Redis is a function from the keys that are present to their    *)
(* values.  Every commit and every Redis command is one step.              *)
(***************************************************************************)
EXTENDS Integers, Sequences, FiniteSets, TLC

(***************************************************************************)
(* Bounds of the model and constants of the program.                       *)
(***************************************************************************)
\* Longest input file, in data rows.
MaxRows == 3
ProgressRows == 50
\* settings.batch_size, scaled down from 500 so that a file has several batches.
BatchSize == 2
\* retry_kwargs={"max_retries": 3}
max_retries == 3

\* Python None / SQL NULL, for a text and for an integer.
None == <<"None">>
NoneInt == -1

Tasks == {"t1", "t2"}

Max(S) == CHOOSE x \in S : \A y \in S : y <= x
Min2(a, b) == IF a <= b THEN a ELSE b

(***************************************************************************)
(* str.strip() and str.lower()                                             *)
(***************************************************************************)
UPPER == <<"A","B","C","D","E","F","G","H","I","J","K","L","M",
           "N","O","P","Q","R","S","T","U","V","W","X","Y","Z">>
LOWER == <<"a","b","c","d","e","f","g","h","i","j","k","l","m",
           "n","o","p","q","r","s","t","u","v","w","x","y","z">>
Whitespace == {" ", "\t", "\n", "\r"}

UpperLetters == {UPPER[i] : i \in 1..26}
LowerOf == [c \in UpperLetters |-> LOWER[CHOOSE i \in 1..26 : UPPER[i] = c]]

lower_char(c) == IF c \in UpperLetters THEN LowerOf[c] ELSE c

lower(s) == [i \in 1..Len(s) |-> lower_char(s[i])]

RECURSIVE lstrip(_)
lstrip(s) ==
    IF s # <<>> /\ Head(s) \in Whitespace THEN lstrip(Tail(s)) ELSE s

RECURSIVE rstrip(_)
rstrip(s) ==
    IF s # <<>> /\ s[Len(s)] \in Whitespace
    THEN rstrip(SubSeq(s, 1, Len(s) - 1))
    ELSE s

strip(s) == rstrip(lstrip(s))

\* (x or ""): None and the empty text both give the empty text.
or_empty(v) == IF v = None THEN <<>> ELSE v

\* `sub in s` for texts.
contains(s, sub) ==
    \E i \in 0..(Len(s) - Len(sub)) : SubSeq(s, i + 1, i + Len(sub)) = sub

(***************************************************************************)
(* Row Normalizer: _normalize_sku, _prepare_product_payload                *)
(***************************************************************************)
\* A normalizer that trims and keeps the case.
_normalize_sku_keeping_case(raw) == strip(or_empty(raw))

_normalize_sku(raw) == lower(strip(or_empty(raw)))

\* normalized_row = {k.strip().lower(): v for k, v in row.items() if k}
\* followed by normalized_row.get(name, ""): the value of the last column whose
\* stripped, lower-cased header is `name` (headers of a file are pairwise
\* distinct texts here, so the dict keeps the columns in file order).
normalized_get(header, values, name) ==
    LET cols == {i \in 1..Len(header) :
                    /\ header[i] # <<>>
                    /\ lower(strip(header[i])) = name}
        \* csv.DictReader fills the cells a short row lacks with None.
        cell(i) == IF i <= Len(values) THEN values[i] ELSE None
    IN  IF cols = {} THEN <<>> ELSE cell(Max(cols))

K_SKU == <<"s","k","u">>
K_NAME == <<"n","a","m","e">>
K_DESCRIPTION == <<"d","e","s","c","r","i","p","t","i","o","n">>

_prepare_product_payload(header, values) ==
    [sku         |-> _normalize_sku(normalized_get(header, values, K_SKU)),
     name        |-> strip(or_empty(normalized_get(header, values, K_NAME))),
     description |-> strip(or_empty(normalized_get(header, values, K_DESCRIPTION))),
     active      |-> TRUE]

(***************************************************************************)
(* Input files.  A file is its header row, its data rows (each a tuple of  *)
(* raw cells), whether the worker finds it on disk, and the data row at    *)
(* which reading it raises (0: the whole file is readable).                *)
(***************************************************************************)
H_PLAIN == [header |-> <<K_SKU, K_NAME, K_DESCRIPTION>>,
            roles  |-> <<"sku", "name", "description">>]
H_MESSY == [header |-> << <<"N","a","m","e"," ">>, <<" ","S","K","U">>,
                          <<"D","e","s","c","r","i","p","t","i","o","n">>,
                          <<"p","r","i","c","e">> >>,
            roles  |-> <<"name", "sku", "description", "extra">>]
H_NO_SKU == [header |-> <<K_NAME, K_DESCRIPTION>>,
             roles  |-> <<"name", "description">>]
H_NO_DESCRIPTION == [header |-> <<K_SKU, K_NAME>>,
                     roles  |-> <<"sku", "name">>]

\* Raw cells: two spellings of the key "a", a second key, a blank key; two
\* names and a blank name; an empty and a non-empty description.
RAW_A == <<"a">>
RAW_A2 == <<"A", " ">>
RAW_B == <<" ", "b">>
RAW_BLANK == <<" ">>
RAW_X == <<"x">>
RAW_Y == <<" ", "Y">>
RAW_D == <<"d", " ">>

LogicalRow(s, n, d) == [sku |-> s, name |-> n, description |-> d]

ValidLogicalRows ==
    {LogicalRow(s, n, d) : s \in {RAW_A, RAW_A2}, n \in {RAW_X, RAW_Y},
                           d \in {<<>>, RAW_D}}
        \cup {LogicalRow(RAW_B, RAW_X, RAW_D)}
DefectLogicalRows ==
    {LogicalRow(RAW_BLANK, RAW_X, RAW_D), LogicalRow(RAW_A2, RAW_BLANK, RAW_D)}
DataLogicalRows == ValidLogicalRows \cup DefectLogicalRows
\* The rows of the job life-cycle specification: a valid row and a row
\* without a name.
LifeLogicalRows ==
    {LogicalRow(RAW_A2, RAW_X, <<>>), LogicalRow(RAW_A2, RAW_BLANK, RAW_D)}

\* The cells of a logical row laid out under a header.
Cells(layout, r) ==
    [i \in 1..Len(layout.roles) |->
        CASE layout.roles[i] = "sku" -> r.sku
          [] layout.roles[i] = "name" -> r.name
          [] layout.roles[i] = "description" -> r.description
          [] OTHER -> <<"9">>]

SeqsUpTo(S, n) == UNION {[1..k -> S] : k \in 0..n}

MakeFile(layout, lrows, exists, bad) ==
    [header  |-> layout.header,
     rows    |-> [i \in 1..Len(lrows) |-> Cells(layout, lrows[i])],
     exists  |-> exists,
     bad_at  |-> bad,
     \* What the rows were written from; no action reads it.
     logical |-> lrows]

NoFile == MakeFile(H_PLAIN, <<>>, FALSE, 0)

\* A file of one row more than a batch whose last row holds bytes that are
\* not UTF-8: reading it raises UnicodeDecodeError at that row.
BrokenFile ==
    MakeFile(H_PLAIN, [i \in 1..(BatchSize + 1) |-> LogicalRow(RAW_A2, RAW_X, <<>>)],
             TRUE, BatchSize + 1)

LifeFiles ==
    {MakeFile(H_PLAIN, rs, TRUE, 0) : rs \in SeqsUpTo(LifeLogicalRows, MaxRows)}
        \cup {BrokenFile}
        \cup {MakeFile(H_PLAIN, <<LogicalRow(RAW_A, RAW_X, <<>>)>>, FALSE, 0)}
        \cup {MakeFile(h, <<LogicalRow(RAW_A, RAW_X, <<>>)>>, TRUE, 0) :
                h \in {H_NO_SKU, H_NO_DESCRIPTION}}
DataFiles ==
    {MakeFile(h, rs, TRUE, 0) : h \in {H_PLAIN, H_MESSY},
                                rs \in SeqsUpTo(DataLogicalRows, MaxRows)}

\* (_prepare_product_payload(row) for row in reader), over the rows of one
\* batch: the generator is consumed batch by batch.
Payloads(header, rows) ==
    [i \in 1..Len(rows) |-> _prepare_product_payload(header, rows[i])]

\* _chunked: the batches of `size` items, in order; the last may be shorter.
\* A chunking that yields full batches only.
_chunked_full_only(items, size) ==
    [k \in 1..(Len(items) \div size) |->
        SubSeq(items, (k - 1) * size + 1, k * size)]

\* A chunking that yields a batch when it holds more than `size` items.
_chunked_one_over(items, size) ==
    [k \in 1..((Len(items) + size) \div (size + 1)) |->
        SubSeq(items, (k - 1) * (size + 1) + 1, Min2(k * (size + 1), Len(items)))]

_chunked(items, size) ==
    [k \in 1..((Len(items) + size - 1) \div size) |->
        SubSeq(items, (k - 1) * size + 1, Min2(k * size, Len(items)))]

\* The deduplication loop of import_products_from_csv: a dict keyed by sku,
\* rows with an empty sku or name skipped, a later row replacing an earlier
\* one with the same sku.  list(deduped.values()) keeps the keys in the order
\* of their first occurrence.
RECURSIVE deduped_from(_, _)
deduped_from(batch, acc) ==
    IF batch = <<>> THEN acc
    ELSE LET product == Head(batch)
         IN  IF product.sku = <<>> \/ product.name = <<>>
             THEN deduped_from(Tail(batch), acc)
             ELSE IF \E i \in 1..Len(acc) : acc[i].sku = product.sku
             THEN deduped_from(Tail(batch),
                      [i \in 1..Len(acc) |->
                          IF acc[i].sku = product.sku THEN product ELSE acc[i]])
             ELSE deduped_from(Tail(batch), Append(acc, product))

\* The same loop without its test `if not product["name"]`.
RECURSIVE deduped_keeping_blank_names(_, _)
deduped_keeping_blank_names(batch, acc) ==
    IF batch = <<>> THEN acc
    ELSE LET product == Head(batch)
         IN  IF product.sku = <<>>
             THEN deduped_keeping_blank_names(Tail(batch), acc)
             ELSE IF \E i \in 1..Len(acc) : acc[i].sku = product.sku
             THEN deduped_keeping_blank_names(Tail(batch),
                      [i \in 1..Len(acc) |->
                          IF acc[i].sku = product.sku THEN product ELSE acc[i]])
             ELSE deduped_keeping_blank_names(Tail(batch), Append(acc, product))
deduped_of_keeping_blank_names(batch) == deduped_keeping_blank_names(batch, <<>>)

deduped_of(batch) == deduped_from(batch, <<>>)

\* A count that takes the header line for a row.
_count_csv_rows_with_header(f) == IF f.bad_at # 0 THEN 0 ELSE Len(f.rows) + 1

\* _count_csv_rows: the number of data rows; 0 when reading the file raises.
_count_csv_rows(f) == IF f.bad_at # 0 THEN 0 ELSE Len(f.rows)

(***************************************************************************)
(* Python's float arithmetic, as far as the progress computation uses it:  *)
(* int / int and float * int are correctly rounded (to nearest, ties to    *)
(* even) to MANT_DIG significant bits, and int() truncates.  A float is a  *)
(* record [m, e]: m the MANT_DIG bits of the significand, most significant *)
(* first and m[1] = 1, and e the binary weight of m[1]; zero is the float  *)
(* without bits.                                                           *)
(***************************************************************************)
MANT_DIG == 53

FloatZero == [m |-> <<>>, e |-> 0]

\* Long division: q.bits followed by the next MANT_DIG + 1 - Len(q.bits)
\* bits of q.rem / d (q.rem < d), and the remainder that is left.
RECURSIVE quotient_bits(_, _)
quotient_bits(q, d) ==
    IF Len(q.bits) > MANT_DIG THEN q
    ELSE IF 2 * q.rem >= d
         THEN quotient_bits([bits |-> Append(q.bits, 1), rem |-> 2 * q.rem - d], d)
         ELSE quotient_bits([bits |-> Append(q.bits, 0), rem |-> 2 * q.rem], d)

\* bits + 1; a carry out of the first bit gives one bit more.
RECURSIVE increment(_)
increment(bits) ==
    IF bits = <<>> THEN <<1>>
    ELSE IF bits[Len(bits)] = 0
         THEN SubSeq(bits, 1, Len(bits) - 1) \o <<1>>
         ELSE increment(SubSeq(bits, 1, Len(bits) - 1)) \o <<0>>

\* Round to MANT_DIG bits, to nearest and ties to even, the number whose
\* bits are `bits` (first bit 1, of weight 2^e) followed by something
\* non-zero when sticky.
round_float(bits, e, sticky) ==
    IF Len(bits) <= MANT_DIG
    THEN [m |-> bits \o [i \in 1..(MANT_DIG - Len(bits)) |-> 0], e |-> e]
    ELSE LET kept == SubSeq(bits, 1, MANT_DIG)
             guard == bits[MANT_DIG + 1]
             rest == sticky \/ \E i \in (MANT_DIG + 2)..Len(bits) : bits[i] = 1
             up == guard = 1 /\ (rest \/ kept[MANT_DIG] = 1)
             inc == increment(kept)
         IN  IF ~ up THEN [m |-> kept, e |-> e]
             ELSE IF Len(inc) > MANT_DIG
             THEN [m |-> SubSeq(inc, 1, MANT_DIG), e |-> e + 1]
             ELSE [m |-> inc, e |-> e]

\* The least k with a * 2^k >= b, for 0 < a.
RECURSIVE shift_up(_, _)
shift_up(a, b) == IF a >= b THEN 0 ELSE 1 + shift_up(2 * a, b)

RECURSIVE pow2(_)
pow2(k) == IF k = 0 THEN 1 ELSE 2 * pow2(k - 1)

\* a / b for integers 0 <= a <= b, 0 < b.
float_div(a, b) ==
    IF a = 0 THEN FloatZero
    ELSE LET k == shift_up(a, b)
             \* 1 <= a * 2^k / b < 2
             q == quotient_bits([bits |-> <<1>>, rem |-> a * pow2(k) - b], b)
         IN  round_float(q.bits, 0 - k, q.rem # 0)

\* The bits of bits * c, for a small positive integer c: the digits from the
\* last to the first with a carry, then the bits of the last carry.
RECURSIVE int_bits(_)
int_bits(n) == IF n = 0 THEN <<>> ELSE Append(int_bits(n \div 2), n % 2)

RECURSIVE times_small(_, _)
times_small(p, c) ==
    IF p.bits = <<>> THEN int_bits(p.carry) \o p.acc
    ELSE LET v == p.bits[Len(p.bits)] * c + p.carry
         IN  times_small([bits |-> SubSeq(p.bits, 1, Len(p.bits) - 1),
                          carry |-> v \div 2,
                          acc |-> <<v % 2>> \o p.acc], c)

\* x * c for a float x >= 0 and an integer c > 0.
float_mul(x, c) ==
    IF x.m = <<>> THEN FloatZero
    ELSE LET product == times_small([bits |-> x.m, carry |-> 0, acc |-> <<>>], c)
         IN  round_float(product, x.e + (Len(product) - Len(x.m)), FALSE)

RECURSIVE bits_value(_)
bits_value(bits) ==
    IF bits = <<>> THEN 0
    ELSE 2 * bits_value(SubSeq(bits, 1, Len(bits) - 1)) + bits[Len(bits)]

\* int(x) for a float 0 <= x < 2^MANT_DIG.
float_int(x) ==
    IF x.m = <<>> \/ x.e < 0 THEN 0
    ELSE bits_value(SubSeq(x.m, 1, x.e + 1))

\* progress = int((processed_count / total_rows * 100)) if total_rows > 0 else 0
\* progress = min(progress, 100)
progress_value(processed_count, total_rows) ==
    IF total_rows > 0
    THEN Min2(float_int(float_mul(float_div(processed_count, total_rows), 100)),
              100)
    ELSE 0

\* The same values for the row counts of the files, computed once.
ProgressMemo ==
    [total_rows \in 1..MaxRows |->
        [processed_count \in 0..total_rows |->
            progress_value(processed_count, total_rows)]]

progress_of(processed_count, total_rows) ==
    IF total_rows \in 1..MaxRows /\ processed_count \in 0..total_rows
    THEN ProgressMemo[total_rows][processed_count]
    ELSE progress_value(processed_count, total_rows)

(***************************************************************************)
(* Texts of the program and of the exceptions of the model.                *)
(***************************************************************************)
\* "Job cancelled by user"
JOB_CANCELLED_BY_USER ==
    <<"J","o","b"," ","c","a","n","c","e","l","l","e","d"," ",
      "b","y"," ","u","s","e","r">>
\* "Task was cancelled by user"
TASK_WAS_CANCELLED ==
    <<"T","a","s","k"," ","w","a","s"," ","c","a","n","c","e","l","l","e","d",
      " ","b","y"," ","u","s","e","r">>
\* "cancelled"
CANCELLED == <<"c","a","n","c","e","l","l","e","d">>
\* str(e) of two exceptions a batch upsert can raise.
ERR_DEADLOCK == <<"d","e","a","d","l","o","c","k">>
ERR_QUERY_CANCELLED ==
    <<"Q","u","e","r","y"," ","C","a","n","c","e","l","l","e","d">>
\* str(e) of the ON CONFLICT error for a statement that names a key twice.
ERR_CARDINALITY == <<"c","a","r","d","i","n","a","l","i","t","y">>
\* str(e) of the UnicodeDecodeError of an unreadable file.
ERR_DECODE == <<"u","t","f","-","8">>
UpsertErrors == {ERR_DEADLOCK, ERR_QUERY_CANCELLED}
\* The text of redis.exceptions.ConnectionError
ERR_CONNECTION == <<"r","e","f","u","s","e","d">>

PENDING == "pending"
PROCESSING == "processing"
COMPLETED == "completed"
FAILED == "failed"

(***************************************************************************)
(* State                                                                   *)
(***************************************************************************)
VARIABLES
    file,         \* task id -> the file uploaded for it
    upload,       \* task id -> position of upload_csv
    import_jobs,  \* the import_jobs table
    products,     \* the products table
    redis,        \* Redis: key -> value, for the keys that are set
    worker,       \* task id -> the Celery task: position and locals
    cancel,       \* task id -> position of the cancel_job request
    revoke,       \* task id -> the revoke broadcast: "no", "sent", "received"
    create,       \* the create_product request: position and body
    now,          \* the database clock, func.now()
    ids,          \* number of product ids handed out (uuid4)
    hist,         \* task id -> what the run published and met (observation only)
    get,          \* the get_job_status request: position and locals
    stream,       \* the event generator of stream_job_events
    delete        \* the delete_job request: position and locals

vars == <<file, upload, import_jobs, products, redis, worker, cancel, revoke,
          create, now, ids, hist, get, stream, delete>>

\* The requests of api/jobs.py that the import itself never touches.
requests == <<get, stream, delete>>

\* f"job:{job_id}" and f"job:{job_id}:cancelled"
job_key(t) == "job:" \o t
cancelled_key(t) == "job:" \o t \o ":cancelled"

setex(r, k, v) == [x \in (DOMAIN r) \cup {k} |-> IF x = k THEN v ELSE r[x]]
delete_key(r, k) == [x \in (DOMAIN r) \ {k} |-> r[x]]

\* A check that never sees the flag.
is_job_cancelled_never(t) == FALSE

\* is_job_cancelled
is_job_cancelled(t) ==
    cancelled_key(t) \in DOMAIN redis /\ redis[cancelled_key(t)] = "1"

\* session.query(ImportJob).filter(ImportJob.celery_task_id == t).first()
has_job(t) == \E j \in import_jobs : j.celery_task_id = t
job_of(t) == CHOOSE j \in import_jobs : j.celery_task_id = t

\* The arguments of one _update_job_progress / cache_job_progress call.
Call(status, progress, total_rows, processed_rows, error_message) ==
    [status |-> status, progress |-> progress, total_rows |-> total_rows,
     processed_rows |-> processed_rows, error_message |-> error_message]
NoCall == Call("", 0, NoneInt, NoneInt, None)

\* _update_job_progress, the database half: the row of the task, when there is
\* one, gets status and progress, and each of total_rows, processed_rows and
\* error_message that is not None; commit.
_update_job_progress_db(jobs, t, c) ==
    {IF j.celery_task_id = t
     THEN [j EXCEPT !.status = c.status,
                    !.progress = c.progress,
                    !.total_rows =
                        IF c.total_rows # NoneInt THEN c.total_rows ELSE @,
                    !.processed_rows =
                        IF c.processed_rows # NoneInt THEN c.processed_rows ELSE @,
                    !.error_message =
                        IF c.error_message # None THEN c.error_message ELSE @]
     ELSE j : j \in jobs}

\* _update_job_progress, the Redis half, and cache_job_progress: the entry
\* job:<task id> becomes the call's five values (json.dumps and json.loads
\* keep integers, texts and None as they are).
cache_data(c) == c

(***************************************************************************)
(* Upsert Executor: _upsert_batch                                          *)
(***************************************************************************)
\* The rows of a payload whose sku is not in the table yet (by the unique
\* index on products.sku, which compares the stored texts as they are).
inserted_rows(prods, payload) ==
    {i \in 1..Len(payload) : ~ \E r \in prods : r.sku = payload[i].sku}

\* A plain INSERT of every row of the payload, without ON CONFLICT.
_insert_batch(prods, payload, clock, id0) ==
    prods \cup
        {[id |-> id0 + i, sku |-> payload[i].sku, name |-> payload[i].name,
          description |-> payload[i].description, active |-> payload[i].active,
          created_at |-> clock, updated_at |-> clock] : i \in 1..Len(payload)}

\* An upsert whose DO UPDATE SET leaves `active` out.
_upsert_batch_keeping_active(prods, payload, clock, id0) ==
    LET fresh == inserted_rows(prods, payload)
        rank(i) == Cardinality({j \in fresh : j <= i})
        excluded(r) == payload[CHOOSE i \in 1..Len(payload) : payload[i].sku = r.sku]
    IN  {IF \E i \in 1..Len(payload) : payload[i].sku = r.sku
         THEN [r EXCEPT !.name = excluded(r).name,
                        !.description = excluded(r).description,
                        !.updated_at = clock]
         ELSE r : r \in prods}
        \cup
        {[id |-> id0 + rank(i), sku |-> payload[i].sku, name |-> payload[i].name,
          description |-> payload[i].description, active |-> payload[i].active,
          created_at |-> clock, updated_at |-> clock] : i \in fresh}

\* An upsert that applies a batch without its last row.
_upsert_batch_without_last(prods, payload, clock, id0) ==
    LET part == SubSeq(payload, 1, Len(payload) - 1)
        fresh == inserted_rows(prods, part)
        rank(i) == Cardinality({j \in fresh : j <= i})
        excluded(r) == part[CHOOSE i \in 1..Len(part) : part[i].sku = r.sku]
    IN  {IF \E i \in 1..Len(part) : part[i].sku = r.sku
         THEN [r EXCEPT !.name = excluded(r).name,
                        !.description = excluded(r).description,
                        !.active = excluded(r).active,
                        !.updated_at = clock]
         ELSE r : r \in prods}
        \cup
        {[id |-> id0 + rank(i), sku |-> part[i].sku, name |-> part[i].name,
          description |-> part[i].description, active |-> part[i].active,
          created_at |-> clock, updated_at |-> clock] : i \in fresh}

\* An upsert whose DO UPDATE SET leaves `description` out.
_upsert_batch_keeping_description(prods, payload, clock, id0) ==
    LET fresh == inserted_rows(prods, payload)
        rank(i) == Cardinality({j \in fresh : j <= i})
        excluded(r) == payload[CHOOSE i \in 1..Len(payload) : payload[i].sku = r.sku]
    IN  {IF \E i \in 1..Len(payload) : payload[i].sku = r.sku
         THEN [r EXCEPT !.name = excluded(r).name,
                        !.active = excluded(r).active,
                        !.updated_at = clock]
         ELSE r : r \in prods}
        \cup
        {[id |-> id0 + rank(i), sku |-> payload[i].sku, name |-> payload[i].name,
          description |-> payload[i].description, active |-> payload[i].active,
          created_at |-> clock, updated_at |-> clock] : i \in fresh}

\* INSERT ... ON CONFLICT (sku) DO UPDATE SET name, description, active,
\* updated_at; commit.  A conflicting row keeps id, sku and created_at; a new
\* row gets a fresh id and the database time.  An empty payload does nothing.
_upsert_batch(prods, payload, clock, id0) ==
    LET fresh == inserted_rows(prods, payload)
        rank(i) == Cardinality({j \in fresh : j <= i})
        excluded(r) == payload[CHOOSE i \in 1..Len(payload) : payload[i].sku = r.sku]
    IN  {IF \E i \in 1..Len(payload) : payload[i].sku = r.sku
         THEN [r EXCEPT !.name = excluded(r).name,
                        !.description = excluded(r).description,
                        !.active = excluded(r).active,
                        !.updated_at = clock]
         ELSE r : r \in prods}
        \cup
        {[id |-> id0 + rank(i), sku |-> payload[i].sku, name |-> payload[i].name,
          description |-> payload[i].description, active |-> payload[i].active,
          created_at |-> clock, updated_at |-> clock] : i \in fresh}

\* PostgreSQL refuses an ON CONFLICT DO UPDATE statement that names a key twice.
names_key_twice(payload) ==
    \E i, j \in 1..Len(payload) : i # j /\ payload[i].sku = payload[j].sku

(***************************************************************************)
(* Initial states                                                          *)
(***************************************************************************)
IdleWorker ==
    [pc |-> "none", retries |-> 0, total_rows |-> 0, processed_count |-> 0,
     progress |-> 0, batches |-> 0, err |-> None, is_cancelled |-> FALSE,
     session |-> "none", call |-> NoCall, ret |-> ""]

\* hist: the processed_rows value and the progress value the attempt
\* published last, whether the cancellation flag was set while the attempt
\* stood between two batches, the number of batches the attempts that raised
\* had committed, and the table of products as it was when the file was
\* uploaded a second time.
NoHist == [last_rows |-> NoneInt, last_progress |-> NoneInt,
           flag_between |-> FALSE, committed |-> 0, snapshot |-> {}]
EmptyRedis == [k \in {} |-> 0]
NoCreate == [pc |-> "off"]
NoRequest == [pc |-> "off"]
RequestsOff == get = NoRequest /\ stream = NoRequest /\ delete = NoRequest

\* One upload, of any file of LifeFiles, into an empty system.
Init ==
    /\ \E f \in LifeFiles : file = [t \in Tasks |-> IF t = "t1" THEN f ELSE NoFile]
    /\ upload = [t \in Tasks |-> IF t = "t1" THEN "idle" ELSE "off"]
    /\ cancel = [t \in Tasks |-> IF t = "t1" THEN "idle" ELSE "off"]
    /\ revoke = [t \in Tasks |-> "no"]
    /\ worker = [t \in Tasks |-> IdleWorker]
    /\ import_jobs = {}
    /\ products = {}
    /\ redis = EmptyRedis
    /\ create = NoCreate
    /\ now = 0
    /\ ids = 0
    /\ hist = [t \in Tasks |-> NoHist]
    /\ RequestsOff

(***************************************************************************)
(* upload_csv                                                              *)
(***************************************************************************)
REQUIRED_CSV_HEADERS == {K_SKU, K_NAME, K_DESCRIPTION}

\* validate_csv_headers: the required headers the file lacks.
missing_headers(f) ==
    LET csv_headers == {lower(strip(f.header[i])) :
                           i \in {j \in 1..Len(f.header) :
                                     f.header[j] # <<>> /\ strip(f.header[j]) # <<>>}}
    IN  IF Len(f.header) = 0
        THEN REQUIRED_CSV_HEADERS
        ELSE {h \in REQUIRED_CSV_HEADERS : lower(h) \notin csv_headers}

\* A validation that is content with any one of the required headers.
validate_csv_headers_any(f) == missing_headers(f) # REQUIRED_CSV_HEADERS

validate_csv_headers(f) == missing_headers(f) = {}

\* upload_csv up to import_products_from_csv.delay(): an invalid file is
\* unlinked and the request ends with 400; a valid one is enqueued.
upload_csv_enqueue(t) ==
    /\ upload[t] = "idle"
    /\ IF validate_csv_headers(file[t])
       THEN /\ upload' = [upload EXCEPT ![t] = "enqueued"]
            /\ worker' = [worker EXCEPT ![t].pc = "queued"]
            /\ file' = file
       ELSE /\ upload' = [upload EXCEPT ![t] = "rejected"]
            /\ file' = [file EXCEPT ![t].exists = FALSE]
            /\ worker' = worker
    /\ UNCHANGED <<import_jobs, products, redis, cancel, revoke, create, now, ids, hist>>
    /\ UNCHANGED requests

\* db.add(import_job); db.commit()
upload_csv_create_job(t) ==
    /\ upload[t] = "enqueued"
    /\ import_jobs' = import_jobs \cup
          {[celery_task_id |-> t, status |-> PENDING, progress |-> 0,
            total_rows |-> NoneInt, processed_rows |-> 0, error_message |-> None]}
    /\ upload' = [upload EXCEPT ![t] = "created"]
    /\ UNCHANGED <<file, products, redis, worker, cancel, revoke, create, now, ids, hist>>
    /\ UNCHANGED requests

\* cache_job_progress(job_id, "pending", 0, None, 0)
upload_csv_cache(t) ==
    /\ upload[t] = "created"
    /\ redis' = setex(redis, job_key(t), cache_data(Call(PENDING, 0, NoneInt, 0, None)))
    /\ upload' = [upload EXCEPT ![t] = "done"]
    /\ UNCHANGED <<file, import_jobs, products, worker, cancel, revoke, create, now, ids, hist>>
    /\ UNCHANGED requests

(***************************************************************************)
(* import_products_from_csv (the Celery task)                              *)
(***************************************************************************)
Running == {"update_db", "update_cache", "loop", "upsert", "except"}

\* autoretry_for=(Exception,), max_retries=3: an attempt that raises is queued
\* again under the same task id until the retries are used up, and then the
\* task fails.
autoretry(w) ==
    IF w.retries < max_retries
    THEN [IdleWorker EXCEPT !.pc = "queued", !.retries = w.retries + 1,
                            !.session = w.session]
    ELSE [IdleWorker EXCEPT !.pc = "failure", !.retries = w.retries,
                            !.session = w.session]

\* The batch the loop is at: batch number batches + 1 of the payload stream.
batches_of(t) == _chunked(file[t].rows, BatchSize)
current_batch(t) ==
    Payloads(file[t].header, batches_of(t)[worker[t].batches + 1])

\* The data rows the generator reads to build the next batch.
rows_of_next_batch(t) ==
    (worker[t].batches * BatchSize + 1) ..
        Min2((worker[t].batches + 1) * BatchSize, Len(file[t].rows))

\* The attempt has committed its batches so far and has not yet made the
\* flag check that precedes the next batch.
before_check(t) ==
    /\ \/ worker[t].pc = "loop"
       \/ worker[t].pc \in {"update_db", "update_cache"} /\ worker[t].ret = "loop"
    /\ worker[t].batches < Len(batches_of(t))

\* Start of an attempt: a missing file raises FileNotFoundError before any
\* status is written; otherwise the session is opened, the rows are counted
\* and the first _update_job_progress (processing, 0) is called.
task_start(t) ==
    /\ worker[t].pc = "queued"
    /\ revoke[t] # "received"
    /\ IF ~ file[t].exists
       THEN worker' = [worker EXCEPT ![t] = autoretry(@)]
       ELSE LET total == _count_csv_rows(file[t])
            IN  worker' = [worker EXCEPT ![t] =
                    [IdleWorker EXCEPT
                        !.pc = "update_db", !.retries = worker[t].retries,
                        !.total_rows = total, !.session = "open",
                        !.call = Call(PROCESSING, 0, total, 0, None),
                        !.ret = "loop"]]
    /\ hist' = [hist EXCEPT ![t].last_rows = NoneInt,
                            ![t].last_progress = NoneInt]
    /\ UNCHANGED <<file, upload, import_jobs, products, redis, cancel, revoke,
                   create, now, ids>>
    /\ UNCHANGED requests

\* _update_job_progress, lines 101-111.
update_job_progress_db(t) ==
    /\ worker[t].pc = "update_db"
    /\ import_jobs' = _update_job_progress_db(import_jobs, t, worker[t].call)
    /\ worker' = [worker EXCEPT ![t].pc = "update_cache"]
    /\ hist' = [hist EXCEPT ![t].last_rows =
                    IF worker[t].call.processed_rows # NoneInt
                    THEN worker[t].call.processed_rows ELSE @,
                            ![t].last_progress = worker[t].call.progress]
    /\ UNCHANGED <<file, upload, products, redis, cancel, revoke, create, now, ids>>
    /\ UNCHANGED requests

\* _update_job_progress, lines 124-141, and what follows the call: the next
\* batch, the return after "completed", or the end of the except block
\* (session.close(), and the re-raise unless the run was cancelled).
update_job_progress_cache(t) ==
    /\ worker[t].pc = "update_cache"
    /\ redis' = setex(redis, job_key(t), cache_data(worker[t].call))
    /\ LET w == worker[t] IN
       worker' = [worker EXCEPT ![t] =
          IF w.ret = "loop"
          THEN [w EXCEPT !.pc = "loop", !.call = NoCall, !.ret = ""]
          ELSE IF w.ret = "return" \/ w.is_cancelled
          THEN [IdleWorker EXCEPT !.pc = "success", !.retries = w.retries,
                                  !.session = "closed"]
          ELSE autoretry([w EXCEPT !.session = "closed"])]
    /\ UNCHANGED <<file, upload, import_jobs, products, cancel, revoke, create,
                   now, ids, hist>>
    /\ UNCHANGED requests

\* redis_client.setex of _update_job_progress raises (Redis cannot be
\* reached): nothing catches it there.  In the try block the exception goes
\* to the except block; in the except block it leaves the task after
\* session.close(), and the attempt has raised.
update_job_progress_cache_raise(t) ==
    /\ worker[t].pc = "update_cache"
    /\ LET w == worker[t] IN
       worker' = [worker EXCEPT ![t] =
          IF w.ret \in {"loop", "return"}
          THEN [w EXCEPT !.pc = "except", !.err = ERR_CONNECTION,
                         !.call = NoCall, !.ret = ""]
          ELSE autoretry([w EXCEPT !.session = "closed"])]
    /\ UNCHANGED <<file, upload, import_jobs, products, redis, cancel, revoke,
                   create, now, ids, hist>>
    /\ UNCHANGED requests

\* One turn of `for batch in _chunked(...)` up to the upsert: the generator
\* reads the next batch (and raises on an unreadable row); with no batch left
\* the task goes on to "completed"; else the cancellation flag is checked,
\* the batch is deduplicated, and an empty result skips the batch.
batch_loop(t) ==
    /\ worker[t].pc = "loop"
    /\ LET w == worker[t] IN
       worker' = [worker EXCEPT ![t] =
          IF file[t].bad_at \in rows_of_next_batch(t)
          THEN [w EXCEPT !.pc = "except", !.err = ERR_DECODE]
          ELSE IF w.batches >= Len(batches_of(t))
          THEN [w EXCEPT !.pc = "update_db", !.ret = "return",
                         !.call = Call(COMPLETED, 100, w.total_rows,
                                       w.processed_count, None)]
          ELSE IF is_job_cancelled(t)
          THEN [w EXCEPT !.pc = "except", !.err = TASK_WAS_CANCELLED]
          ELSE IF deduped_of(current_batch(t)) = <<>>
          THEN [w EXCEPT !.batches = @ + 1]
          ELSE [w EXCEPT !.pc = "upsert"]]
    /\ UNCHANGED <<file, upload, import_jobs, products, redis, cancel, revoke,
                   create, now, ids, hist>>
    /\ UNCHANGED requests

\* _upsert_batch commits; processed_count and progress are advanced and the
\* progress update is called.
upsert_commit(t) ==
    /\ worker[t].pc = "upsert"
    /\ LET w == worker[t]
           payload == deduped_of(current_batch(t))
           count == w.processed_count + Len(payload)
           progress == progress_of(count, w.total_rows)
       IN  IF names_key_twice(payload)
           THEN /\ worker' = [worker EXCEPT ![t] =
                        [w EXCEPT !.pc = "except", !.err = ERR_CARDINALITY]]
                /\ UNCHANGED <<products, now, ids>>
           ELSE /\ products' = _upsert_batch(products, payload, now + 1, ids)
                /\ now' = now + 1
                /\ ids' = ids + Cardinality(inserted_rows(products, payload))
                /\ worker' = [worker EXCEPT ![t] =
                        [w EXCEPT !.pc = "update_db", !.ret = "loop",
                                  !.batches = @ + 1,
                                  !.processed_count = count,
                                  !.progress = progress,
                                  !.call = Call(PROCESSING, progress, w.total_rows,
                                                count, None)]]
    /\ UNCHANGED <<file, upload, import_jobs, redis, cancel, revoke, create, hist>>
    /\ UNCHANGED requests

\* _upsert_batch raises: nothing of the batch is committed.
upsert_raise(t) ==
    /\ worker[t].pc = "upsert"
    /\ \E e \in UpsertErrors :
          worker' = [worker EXCEPT ![t].pc = "except", ![t].err = e]
    /\ UNCHANGED <<file, upload, import_jobs, products, redis, cancel, revoke,
                   create, now, ids, hist>>
    /\ UNCHANGED requests

\* The except block up to its _update_job_progress call: rollback, the test
\* for a cancellation, the message.
except_block(t) ==
    /\ worker[t].pc = "except"
    /\ LET w == worker[t]
           error_msg == w.err
           is_cancelled == contains(lower(error_msg), CANCELLED)
                              \/ is_job_cancelled(t)
           final_error_msg == IF is_cancelled THEN JOB_CANCELLED_BY_USER
                                              ELSE error_msg
       IN  worker' = [worker EXCEPT ![t] =
              [w EXCEPT !.pc = "update_db", !.ret = "raise",
                        !.is_cancelled = is_cancelled,
                        !.call = Call(FAILED, w.progress,
                                      IF w.total_rows > 0 THEN w.total_rows
                                                          ELSE NoneInt,
                                      IF w.processed_count > 0 THEN w.processed_count
                                                               ELSE NoneInt,
                                      final_error_msg)]]
    /\ hist' = [hist EXCEPT ![t].committed =
                    IF worker[t].batches > @ THEN worker[t].batches ELSE @]
    /\ UNCHANGED <<file, upload, import_jobs, products, redis, cancel, revoke,
                   create, now, ids>>
    /\ UNCHANGED requests

(***************************************************************************)
(* cancel_job and the revoke it sends                                      *)
(***************************************************************************)
\* A lookup that accepts the request for a job of any status.
cancel_job_lookup_any_status(t) ==
    /\ cancel[t] = "idle"
    /\ cancel' = [cancel EXCEPT ![t] =
          IF ~ has_job(t) THEN "not_found" ELSE "accepted"]
    /\ UNCHANGED <<file, upload, import_jobs, products, redis, worker, revoke,
                   create, now, ids, hist>>
    /\ UNCHANGED requests

\* Lines 272-293: 404 without a row, 400 unless the job is pending or
\* processing.
cancel_job_lookup(t) ==
    /\ cancel[t] = "idle"
    /\ cancel' = [cancel EXCEPT ![t] =
          IF ~ has_job(t) THEN "not_found"
          ELSE IF job_of(t).status \notin {PENDING, PROCESSING} THEN "refused"
          ELSE "accepted"]
    /\ UNCHANGED <<file, upload, import_jobs, products, redis, worker, revoke,
                   create, now, ids, hist>>
    /\ UNCHANGED requests

\* set_job_cancelled, then celery_app.control.revoke(id, terminate=True): the
\* broadcast is sent, or the call raises and the handler goes on.
cancel_job_flag(t) ==
    /\ cancel[t] = "accepted"
    /\ redis' = setex(redis, cancelled_key(t), "1")
    /\ \E sent \in BOOLEAN :
          revoke' = [revoke EXCEPT ![t] = IF sent THEN "sent" ELSE @]
    /\ cancel' = [cancel EXCEPT ![t] = "flagged"]
    /\ hist' = [hist EXCEPT ![t].flag_between = before_check(t)]
    /\ UNCHANGED <<file, upload, import_jobs, products, worker, create, now, ids>>
    /\ UNCHANGED requests

\* import_job.status = "failed"; import_job.error_message = ...; db.commit()
\* When the row has been deleted since it was loaded, the UPDATE matches no
\* row and the commit raises (StaleDataError): the request ends there.
cancel_job_commit(t) ==
    /\ cancel[t] = "flagged"
    /\ import_jobs' = {IF j.celery_task_id = t
                       THEN [j EXCEPT !.status = FAILED,
                                      !.error_message = JOB_CANCELLED_BY_USER]
                       ELSE j : j \in import_jobs}
    /\ cancel' = [cancel EXCEPT ![t] = IF has_job(t) THEN "committed" ELSE "error"]
    /\ UNCHANGED <<file, upload, products, redis, worker, revoke, create, now,
                   ids, hist>>
    /\ UNCHANGED requests

\* cache_job_progress with the row's progress and counts as they are read
\* back after the commit.  Reading them back from a row that has been
\* deleted since raises (ObjectDeletedError) before anything is cached.
cancel_job_cache(t) ==
    /\ cancel[t] = "committed"
    /\ IF has_job(t)
       THEN /\ redis' = setex(redis, job_key(t),
                              cache_data(Call(FAILED, job_of(t).progress,
                                              job_of(t).total_rows,
                                              job_of(t).processed_rows,
                                              JOB_CANCELLED_BY_USER)))
            /\ cancel' = [cancel EXCEPT ![t] = "done"]
       ELSE /\ redis' = redis
            /\ cancel' = [cancel EXCEPT ![t] = "error"]
    /\ UNCHANGED <<file, upload, import_jobs, products, worker, revoke, create,
                   now, ids, hist>>
    /\ UNCHANGED requests

\* The worker receives the revoke: a task still queued (a first delivery or a
\* retry) is discarded, and terminate=True kills the process that runs the
\* task, wherever it is; neither except nor finally runs.
revoke_received(t) ==
    /\ revoke[t] = "sent"
    /\ revoke' = [revoke EXCEPT ![t] = "received"]
    /\ worker' = [worker EXCEPT ![t].pc =
          IF @ \in Running \cup {"queued"} THEN "revoked" ELSE @]
    /\ UNCHANGED <<file, upload, import_jobs, products, redis, cancel, create,
                   now, ids, hist>>
    /\ UNCHANGED requests

(***************************************************************************)
(* The job life cycle: one upload, its task with its retries, one cancel   *)
(* request.                                                                *)
(***************************************************************************)
Next ==
    \E t \in Tasks :
        \/ upload_csv_enqueue(t)
        \/ upload_csv_create_job(t)
        \/ upload_csv_cache(t)
        \/ task_start(t)
        \/ update_job_progress_db(t)
        \/ update_job_progress_cache(t)
        \/ batch_loop(t)
        \/ upsert_commit(t)
        \/ upsert_raise(t)
        \/ except_block(t)
        \/ cancel_job_lookup(t)
        \/ cancel_job_flag(t)
        \/ cancel_job_commit(t)
        \/ cancel_job_cache(t)
        \/ revoke_received(t)

Spec == Init /\ [][Next]_vars

(***************************************************************************)
(* One run over any file of DataFiles, from the state upload_csv leaves:   *)
(* the row pending, the cache entry pending, the task queued.              *)
(***************************************************************************)
Uploaded(f) ==
    /\ file = [t \in Tasks |-> IF t = "t1" THEN f ELSE NoFile]
    /\ upload = [t \in Tasks |-> IF t = "t1" THEN "done" ELSE "off"]
    /\ cancel = [t \in Tasks |-> "off"]
    /\ revoke = [t \in Tasks |-> "no"]
    /\ worker = [t \in Tasks |->
                    IF t = "t1" THEN [IdleWorker EXCEPT !.pc = "queued"]
                    ELSE IdleWorker]
    /\ import_jobs =
          {[celery_task_id |-> "t1", status |-> PENDING, progress |-> 0,
            total_rows |-> NoneInt, processed_rows |-> 0, error_message |-> None]}
    /\ products = {}
    /\ redis = setex(EmptyRedis, job_key("t1"),
                     cache_data(Call(PENDING, 0, NoneInt, 0, None)))
    /\ create = NoCreate
    /\ now = 0
    /\ ids = 0
    /\ hist = [t \in Tasks |-> NoHist]
    /\ RequestsOff

InitData == \E f \in DataFiles : Uploaded(f)

NextData ==
    \E t \in Tasks :
        \/ task_start(t)
        \/ update_job_progress_db(t)
        \/ update_job_progress_cache(t)
        \/ batch_loop(t)
        \/ upsert_commit(t)

SpecData == InitData /\ [][NextData]_vars

(***************************************************************************)
(* The same file imported twice, one run after the other, the attempts of  *)
(* each run failing at any upsert and being retried.                       *)
(***************************************************************************)
RerunLogicalRows ==
    {LogicalRow(RAW_A2, RAW_X, <<>>), LogicalRow(RAW_B, RAW_Y, RAW_D)}
RerunFiles ==
    {MakeFile(H_PLAIN, rs, TRUE, 0) : rs \in SeqsUpTo(RerunLogicalRows, MaxRows)}

\* upload_csv up to the file on disk, for a client that uploads again the
\* file of a completed job t, as task u.
upload_csv_store(t, u) ==
    /\ upload[u] = "off"
    /\ worker[t].pc = "success"
    /\ has_job(t) /\ job_of(t).status = COMPLETED
    /\ file' = [file EXCEPT ![u] = file[t]]
    /\ upload' = [upload EXCEPT ![u] = "idle"]
    /\ hist' = [hist EXCEPT ![u].snapshot = products]
    /\ UNCHANGED <<import_jobs, products, redis, worker, cancel, revoke, create,
                   now, ids>>
    /\ UNCHANGED requests

InitRerun == \E f \in RerunFiles : Uploaded(f)

NextRerun ==
    \/ upload_csv_store("t1", "t2")
    \/ \E t \in Tasks :
        \/ upload_csv_enqueue(t)
        \/ upload_csv_create_job(t)
        \/ upload_csv_cache(t)
        \/ task_start(t)
        \/ update_job_progress_db(t)
        \/ update_job_progress_cache(t)
        \/ batch_loop(t)
        \/ upsert_commit(t)
        \/ upsert_raise(t)
        \/ except_block(t)

SpecRerun == InitRerun /\ [][NextRerun]_vars

(***************************************************************************)
(* create_product, and two imports and one create request at once          *)
(***************************************************************************)
\* A normalizer of the API that trims and keeps the case.
normalize_sku_keeping_case(sku) == strip(sku)

\* normalize_sku of api/products.py
normalize_sku(sku) == lower(strip(sku))

\* The request bodies of the model: a key in either spelling, active or not.
ProductCreate ==
    {[sku |-> k, name |-> RAW_Y, description |-> None, active |-> a] :
        k \in {RAW_A2, RAW_B}, a \in BOOLEAN}

\* create_product up to its existence check: 400 when a product has the
\* normalized sku, compared with lower(products.sku).
create_product_check ==
    /\ create.pc = "idle"
    /\ \E product_data \in ProductCreate :
          LET normalized_sku == normalize_sku(product_data.sku)
          IN  create' =
                IF \E r \in products : lower(r.sku) = normalized_sku
                THEN [pc |-> "refused", data |-> product_data,
                      normalized_sku |-> normalized_sku]
                ELSE [pc |-> "checked", data |-> product_data,
                      normalized_sku |-> normalized_sku]
    /\ UNCHANGED <<file, upload, import_jobs, products, redis, worker, cancel,
                   revoke, now, ids, hist>>
    /\ UNCHANGED requests

\* db.add(product); db.commit(): the unique index on products.sku refuses a
\* second row with the same stored sku (IntegrityError).
create_product_commit ==
    /\ create.pc = "checked"
    /\ IF \E r \in products : r.sku = create.normalized_sku
       THEN /\ create' = [create EXCEPT !.pc = "error"]
            /\ UNCHANGED <<products, now, ids>>
       ELSE /\ products' = products \cup
                  {[id |-> ids + 1, sku |-> create.normalized_sku,
                    name |-> create.data.name,
                    description |-> create.data.description,
                    active |-> create.data.active,
                    created_at |-> now + 1, updated_at |-> now + 1]}
            /\ now' = now + 1
            /\ ids' = ids + 1
            /\ create' = [create EXCEPT !.pc = "created"]
    /\ UNCHANGED <<file, upload, import_jobs, redis, worker, cancel, revoke, hist>>
    /\ UNCHANGED requests

StoreLogicalRows ==
    {LogicalRow(RAW_A, RAW_X, <<>>), LogicalRow(RAW_B, RAW_X, RAW_D)}
StoreFiles ==
    {MakeFile(H_PLAIN, rs, TRUE, 0) : rs \in SeqsUpTo(StoreLogicalRows, MaxRows)}
OtherStoreFiles ==
    {MakeFile(H_MESSY, <<LogicalRow(RAW_A2, RAW_Y, RAW_D)>>, TRUE, 0),
     MakeFile(H_MESSY, <<LogicalRow(RAW_B, RAW_Y, <<>>),
                         LogicalRow(RAW_A2, RAW_Y, RAW_D)>>, TRUE, 0)}

\* Two uploaded files, their tasks queued, and a create request to come.
InitStore ==
    \E f \in StoreFiles, g \in OtherStoreFiles :
        /\ file = [t \in Tasks |-> IF t = "t1" THEN f ELSE g]
        /\ upload = [t \in Tasks |-> "done"]
        /\ cancel = [t \in Tasks |-> "off"]
        /\ revoke = [t \in Tasks |-> "no"]
        /\ worker = [t \in Tasks |-> [IdleWorker EXCEPT !.pc = "queued"]]
        /\ import_jobs =
              {[celery_task_id |-> t, status |-> PENDING, progress |-> 0,
                total_rows |-> NoneInt, processed_rows |-> 0,
                error_message |-> None] : t \in Tasks}
        /\ products = {}
        /\ redis = [k \in {job_key(t) : t \in Tasks} |->
                        cache_data(Call(PENDING, 0, NoneInt, 0, None))]
        /\ create = [pc |-> "idle"]
        /\ now = 0
        /\ ids = 0
        /\ hist = [t \in Tasks |-> NoHist]
        /\ RequestsOff

NextStore ==
    \/ create_product_check
    \/ create_product_commit
    \/ \E t \in Tasks :
        \/ task_start(t)
        \/ update_job_progress_db(t)
        \/ update_job_progress_cache(t)
        \/ batch_loop(t)
        \/ upsert_commit(t)

SpecStore == InitStore /\ [][NextStore]_vars

(***************************************************************************)
(* The runs of an uploaded job when Redis may refuse any write of the      *)
(* worker, with a cancel request at any moment.                            *)
(***************************************************************************)
CacheFiles ==
    {MakeFile(H_PLAIN, rs, TRUE, 0) : rs \in SeqsUpTo(LifeLogicalRows, MaxRows)}

InitCache ==
    \E f \in CacheFiles :
        /\ file = [t \in Tasks |-> IF t = "t1" THEN f ELSE NoFile]
        /\ upload = [t \in Tasks |-> IF t = "t1" THEN "done" ELSE "off"]
        /\ cancel = [t \in Tasks |-> IF t = "t1" THEN "idle" ELSE "off"]
        /\ revoke = [t \in Tasks |-> "no"]
        /\ worker = [t \in Tasks |->
                        IF t = "t1" THEN [IdleWorker EXCEPT !.pc = "queued"]
                        ELSE IdleWorker]
        /\ import_jobs =
              {[celery_task_id |-> "t1", status |-> PENDING, progress |-> 0,
                total_rows |-> NoneInt, processed_rows |-> 0,
                error_message |-> None]}
        /\ products = {}
        /\ redis = setex(EmptyRedis, job_key("t1"),
                         cache_data(Call(PENDING, 0, NoneInt, 0, None)))
        /\ create = NoCreate
        /\ now = 0
        /\ ids = 0
        /\ hist = [t \in Tasks |-> NoHist]
        /\ RequestsOff

NextCache ==
    \E t \in Tasks :
        \/ task_start(t)
        \/ update_job_progress_db(t)
        \/ update_job_progress_cache(t)
        \/ update_job_progress_cache_raise(t)
        \/ batch_loop(t)
        \/ upsert_commit(t)
        \/ except_block(t)
        \/ cancel_job_lookup(t)
        \/ cancel_job_flag(t)
        \/ cancel_job_commit(t)
        \/ cancel_job_cache(t)
        \/ revoke_received(t)

SpecCache == InitCache /\ [][NextCache]_vars

(***************************************************************************)
(* The progress update of a run over a file of up to ProgressRows rows,    *)
(* taken at the point where _upsert_batch has returned and                 *)
(* processed_count has been advanced (line 211).                           *)
(***************************************************************************)
InitProgress ==
    \E total \in 1..ProgressRows : \E count \in 1..total :
        /\ file = [t \in Tasks |-> NoFile]
        /\ upload = [t \in Tasks |-> IF t = "t1" THEN "done" ELSE "off"]
        /\ cancel = [t \in Tasks |-> "off"]
        /\ revoke = [t \in Tasks |-> "no"]
        /\ worker = [t \in Tasks |->
                        IF t = "t1"
                        THEN [IdleWorker EXCEPT !.pc = "counted", !.session = "open",
                                                !.total_rows = total,
                                                !.processed_count = count]
                        ELSE IdleWorker]
        /\ import_jobs =
              {[celery_task_id |-> "t1", status |-> PROCESSING, progress |-> 0,
                total_rows |-> total, processed_rows |-> 0, error_message |-> None]}
        /\ products = {}
        /\ redis = setex(EmptyRedis, job_key("t1"),
                         cache_data(Call(PROCESSING, 0, total, 0, None)))
        /\ create = NoCreate
        /\ now = 0
        /\ ids = 0
        /\ hist = [t \in Tasks |-> NoHist]
        /\ RequestsOff

\* Lines 215-226: progress is computed and the progress update is called.
progress_update(t) ==
    /\ worker[t].pc = "counted"
    /\ LET w == worker[t]
           progress == progress_value(w.processed_count, w.total_rows)
       IN  worker' = [worker EXCEPT ![t] =
              [w EXCEPT !.pc = "update_db", !.ret = "loop",
                        !.progress = progress,
                        !.call = Call(PROCESSING, progress, w.total_rows,
                                      w.processed_count, None)]]
    /\ UNCHANGED <<file, upload, import_jobs, products, redis, cancel, revoke,
                   create, now, ids, hist>>
    /\ UNCHANGED requests

NextProgress ==
    \E t \in Tasks :
        \/ progress_update(t)
        \/ update_job_progress_db(t)

SpecProgress == InitProgress /\ [][NextProgress]_vars

(***************************************************************************)
(* One run over a file of up to MaxRows valid rows whose keys are pairwise *)
(* distinct, in any order.                                                 *)
(***************************************************************************)
Digits == <<"1", "2", "3", "4", "5", "6", "7", "8", "9">>
KeyCell(i) == <<"K", Digits[i]>>
DistinctRow(i) == LogicalRow(KeyCell(i), RAW_X, <<>>)
DistinctFiles ==
    {MakeFile(H_PLAIN, [i \in 1..Len(ks) |-> DistinctRow(ks[i])], TRUE, 0) :
        ks \in {q \in SeqsUpTo(1..MaxRows, MaxRows) :
                    \A i, j \in 1..Len(q) : i # j => q[i] # q[j]}}

InitBatches == \E f \in DistinctFiles : Uploaded(f)

SpecBatches == InitBatches /\ [][NextData]_vars

(***************************************************************************)
(* get_job_status                                                          *)
(***************************************************************************)
\* ImportJob.id of the row of task t: a uuid4 of its own (routes.py:108).
job_id_of(t) == "id-" \o t

\* uuid.UUID(x) succeeds on the id of a row and on a Celery task id (both
\* are uuid4 texts) and raises ValueError on any other text.
NOT_A_UUID == "latest"
is_uuid(x) == x # NOT_A_UUID

\* The identifiers a client may put into the path.
RequestIds == {job_id_of(t) : t \in Tasks} \cup Tasks \cup {NOT_A_UUID}

\* query(ImportJob).filter(...).first(), or None.
NoJob == [status |-> "none"]
first(S) == IF S = {} THEN NoJob ELSE CHOOSE j \in S : TRUE
by_id(x) == first({j \in import_jobs : job_id_of(j.celery_task_id) = x})
by_celery_task_id(x) == first({j \in import_jobs : j.celery_task_id = x})

\* get_cached_job_progress: the entry, or None
get_cached_job_progress(x) ==
    IF job_key(x) \in DOMAIN redis THEN redis[job_key(x)] ELSE NoJob

\* The five values of a status answer.
answer(r) == Call(r.status, r.progress, r.total_rows, r.processed_rows,
                  r.error_message)

\* Lines 27-37: the id is tried as the id of a row; a text that is not a
\* uuid is taken for a task id.  celery_task_id stays None ("") when the
\* text is a uuid that is the id of no row.
get_job_status_resolve ==
    /\ get.pc = "idle"
    /\ \E job_id \in RequestIds :
          LET import_job == IF is_uuid(job_id) THEN by_id(job_id) ELSE NoJob
              celery_task_id ==
                  IF is_uuid(job_id)
                  THEN IF import_job # NoJob THEN import_job.celery_task_id ELSE ""
                  ELSE job_id
          IN  get' = [pc |-> "resolved", job_id |-> job_id,
                      import_job |-> import_job,
                      celery_task_id |-> celery_task_id,
                      existed |-> by_id(job_id) # NoJob
                                     \/ by_celery_task_id(job_id) # NoJob,
                      result |-> NoCall]
    /\ UNCHANGED <<file, upload, import_jobs, products, redis, worker, cancel,
                   revoke, create, now, ids, hist, stream, delete>>

\* Lines 39-47: `cached` is assigned only under `if celery_task_id:`, and
\* `if cached:` reads it in any case: without a task id the name is unbound
\* and the request ends with UnboundLocalError.
get_job_status_cache ==
    /\ get.pc = "resolved"
    /\ LET cached == get_cached_job_progress(get.celery_task_id)
       IN  get' = IF get.celery_task_id = ""
                  THEN [get EXCEPT !.pc = "error"]
                  ELSE IF cached # NoJob
                  THEN [get EXCEPT !.pc = "returned", !.result = answer(cached)]
                  ELSE [get EXCEPT !.pc = "fallback"]
    /\ UNCHANGED <<file, upload, import_jobs, products, redis, worker, cancel,
                   revoke, create, now, ids, hist, stream, delete>>

\* Lines 49-76: the row found by id is used as it was loaded, else the row
\* is looked up by task id; 404 without a row.
get_job_status_db ==
    /\ get.pc = "fallback"
    /\ LET import_job == IF get.import_job # NoJob THEN get.import_job
                         ELSE by_celery_task_id(get.celery_task_id)
       IN  get' = IF import_job = NoJob
                  THEN [get EXCEPT !.pc = "not_found"]
                  ELSE [get EXCEPT !.pc = "returned", !.result = answer(import_job)]
    /\ UNCHANGED <<file, upload, import_jobs, products, redis, worker, cancel,
                   revoke, create, now, ids, hist, stream, delete>>

\* setex(key, 3600, ...): an entry is gone when its time to live is over.
redis_expire ==
    /\ \E k \in DOMAIN redis : redis' = delete_key(redis, k)
    /\ UNCHANGED <<file, upload, import_jobs, products, worker, cancel, revoke,
                   create, now, ids, hist, get, stream, delete>>

(***************************************************************************)
(* One upload and its run, with a status request at any moment and cache   *)
(* entries that expire.                                                    *)
(***************************************************************************)
ReadFiles ==
    {MakeFile(H_PLAIN, rs, TRUE, 0) : rs \in SeqsUpTo(LifeLogicalRows, MaxRows)}

InitRead ==
    \E f \in ReadFiles :
        /\ file = [t \in Tasks |-> IF t = "t1" THEN f ELSE NoFile]
        /\ upload = [t \in Tasks |-> IF t = "t1" THEN "idle" ELSE "off"]
        /\ cancel = [t \in Tasks |-> "off"]
        /\ revoke = [t \in Tasks |-> "no"]
        /\ worker = [t \in Tasks |-> IdleWorker]
        /\ import_jobs = {}
        /\ products = {}
        /\ redis = EmptyRedis
        /\ create = NoCreate
        /\ now = 0
        /\ ids = 0
        /\ hist = [t \in Tasks |-> NoHist]
        /\ get = [pc |-> "idle"]
        /\ stream = NoRequest
        /\ delete = NoRequest

NextRead ==
    \/ get_job_status_resolve
    \/ get_job_status_cache
    \/ get_job_status_db
    \/ redis_expire
    \/ \E t \in Tasks :
        \/ upload_csv_enqueue(t)
        \/ upload_csv_create_job(t)
        \/ upload_csv_cache(t)
        \/ task_start(t)
        \/ update_job_progress_db(t)
        \/ update_job_progress_cache(t)
        \/ batch_loop(t)
        \/ upsert_commit(t)

SpecRead == InitRead /\ [][NextRead]_vars

(***************************************************************************)
(* stream_job_events: the event generator.  The fallback of lines 160-169  *)
(* is read as written statement by statement: without a task id the row is *)
(* looked up by id, else by task id.                                       *)
(***************************************************************************)
\* An update as it is emitted; NoUpdate before the first one.
Update(status, progress, processed_rows) ==
    [status |-> status, progress |-> progress, processed_rows |-> processed_rows]
NoUpdate == Update("None", NoneInt, NoneInt)

\* A test that finds every poll changed.
changed_always(u, last) == TRUE

\* Lines 190-192: status, progress or processed_rows differ from the last
\* emission.
changed(u, last) ==
    \/ u.status # last.status
    \/ u.progress # last.progress
    \/ u.processed_rows # last.processed_rows

\* Lines 127-142: the locals of the generator and the task id of the job.
stream_open ==
    /\ stream.pc = "idle"
    /\ \E job_id \in RequestIds :
          LET import_job == IF is_uuid(job_id) THEN by_id(job_id) ELSE NoJob
          IN  stream' =
                [pc |-> "polling", job_id |-> job_id,
                 celery_task_id |->
                     IF is_uuid(job_id)
                     THEN IF import_job # NoJob THEN import_job.celery_task_id ELSE ""
                     ELSE job_id,
                 last |-> Update("None", -1, -1),
                 \* What was emitted: the latest update and the one before it,
                 \* the close event, the error event.
                 cur |-> NoUpdate, prev |-> NoUpdate, close |-> FALSE,
                 error |-> FALSE]
    /\ UNCHANGED <<file, upload, import_jobs, products, redis, worker, cancel,
                   revoke, create, now, ids, hist, get, delete>>

\* One turn of `while True` (lines 145-215): the values are read from the
\* cache entry or else from the row; without a row the error event is sent
\* and the generator ends; an update is sent when the values changed, and
\* after an update with status completed or failed the close event is sent
\* and the generator ends.
stream_poll ==
    /\ stream.pc = "polling"
    /\ LET cached == IF stream.celery_task_id # ""
                     THEN get_cached_job_progress(stream.celery_task_id)
                     ELSE NoJob
           import_job == IF stream.celery_task_id = ""
                         THEN by_id(stream.job_id)
                         ELSE by_celery_task_id(stream.celery_task_id)
           u == IF cached # NoJob
                THEN Update(cached.status, cached.progress, cached.processed_rows)
                ELSE Update(import_job.status, import_job.progress,
                            IF import_job.processed_rows = NoneInt THEN 0
                            ELSE import_job.processed_rows)
       IN  stream' =
             IF cached = NoJob /\ import_job = NoJob
             THEN [stream EXCEPT !.pc = "ended", !.error = TRUE]
             ELSE LET task_id == IF cached = NoJob /\ stream.celery_task_id = ""
                                 THEN import_job.celery_task_id
                                 ELSE stream.celery_task_id
                  IN  IF changed(u, stream.last)
                      THEN [stream EXCEPT
                              !.celery_task_id = task_id,
                              !.last = u, !.prev = stream.cur, !.cur = u,
                              !.close = u.status \in {COMPLETED, FAILED},
                              !.pc = IF u.status \in {COMPLETED, FAILED}
                                     THEN "closed" ELSE "polling"]
                      ELSE [stream EXCEPT !.celery_task_id = task_id]
    /\ UNCHANGED <<file, upload, import_jobs, products, redis, worker, cancel,
                   revoke, create, now, ids, hist, get, delete>>

(***************************************************************************)
(* One upload, its run and a cancel request, watched by one event stream,  *)
(* with cache entries that expire.                                         *)
(***************************************************************************)
StreamFiles ==
    {MakeFile(H_PLAIN, rs, TRUE, 0) : rs \in SeqsUpTo(LifeLogicalRows, MaxRows - 1)}

InitStream ==
    \E f \in StreamFiles :
        /\ file = [t \in Tasks |-> IF t = "t1" THEN f ELSE NoFile]
        /\ upload = [t \in Tasks |-> IF t = "t1" THEN "idle" ELSE "off"]
        /\ cancel = [t \in Tasks |-> IF t = "t1" THEN "idle" ELSE "off"]
        /\ revoke = [t \in Tasks |-> "no"]
        /\ worker = [t \in Tasks |-> IdleWorker]
        /\ import_jobs = {}
        /\ products = {}
        /\ redis = EmptyRedis
        /\ create = NoCreate
        /\ now = 0
        /\ ids = 0
        /\ hist = [t \in Tasks |-> NoHist]
        /\ get = NoRequest
        /\ stream = [pc |-> "idle"]
        /\ delete = NoRequest

NextStream ==
    \/ stream_open
    \/ stream_poll
    \/ redis_expire
    \/ \E t \in Tasks :
        \/ upload_csv_enqueue(t)
        \/ upload_csv_create_job(t)
        \/ upload_csv_cache(t)
        \/ task_start(t)
        \/ update_job_progress_db(t)
        \/ update_job_progress_cache(t)
        \/ batch_loop(t)
        \/ upsert_commit(t)
        \/ except_block(t)
        \/ cancel_job_lookup(t)
        \/ cancel_job_flag(t)
        \/ cancel_job_commit(t)
        \/ cancel_job_cache(t)
        \/ revoke_received(t)

SpecStream == InitStream /\ [][NextStream]_vars

(***************************************************************************)
(* delete_job                                                              *)
(***************************************************************************)
\* Lines 239-248: the row by id when the text is a uuid, else by task id;
\* 404 without a row.
delete_job_lookup ==
    /\ delete.pc = "idle"
    /\ \E job_id \in RequestIds :
          LET import_job == IF is_uuid(job_id) THEN by_id(job_id)
                            ELSE by_celery_task_id(job_id)
          IN  delete' = IF import_job = NoJob
                        THEN [pc |-> "not_found", job_id |-> job_id,
                              celery_task_id |-> ""]
                        ELSE [pc |-> "found", job_id |-> job_id,
                              celery_task_id |-> import_job.celery_task_id]
    /\ UNCHANGED <<file, upload, import_jobs, products, redis, worker, cancel,
                   revoke, create, now, ids, hist, get, stream>>

\* delete_cached_job_progress(import_job.celery_task_id)
delete_job_cache ==
    /\ delete.pc = "found"
    /\ redis' = delete_key(redis, job_key(delete.celery_task_id))
    /\ delete' = [delete EXCEPT !.pc = "uncached"]
    /\ UNCHANGED <<file, upload, import_jobs, products, worker, cancel, revoke,
                   create, now, ids, hist, get, stream>>

\* db.delete(import_job); db.commit()
delete_job_commit ==
    /\ delete.pc = "uncached"
    /\ import_jobs' = {j \in import_jobs : j.celery_task_id # delete.celery_task_id}
    /\ delete' = [delete EXCEPT !.pc = "done"]
    /\ UNCHANGED <<file, upload, products, redis, worker, cancel, revoke, create,
                   now, ids, hist, get, stream>>

(***************************************************************************)
(* An uploaded job, its run, a cancel request and a delete request.        *)
(***************************************************************************)
InitDelete ==
    \E f \in StreamFiles :
        /\ file = [t \in Tasks |-> IF t = "t1" THEN f ELSE NoFile]
        /\ upload = [t \in Tasks |-> IF t = "t1" THEN "done" ELSE "off"]
        /\ cancel = [t \in Tasks |-> IF t = "t1" THEN "idle" ELSE "off"]
        /\ revoke = [t \in Tasks |-> "no"]
        /\ worker = [t \in Tasks |->
                        IF t = "t1" THEN [IdleWorker EXCEPT !.pc = "queued"]
                        ELSE IdleWorker]
        /\ import_jobs =
              {[celery_task_id |-> "t1", status |-> PENDING, progress |-> 0,
                total_rows |-> NoneInt, processed_rows |-> 0,
                error_message |-> None]}
        /\ products = {}
        /\ redis = setex(EmptyRedis, job_key("t1"),
                         cache_data(Call(PENDING, 0, NoneInt, 0, None)))
        /\ create = NoCreate
        /\ now = 0
        /\ ids = 0
        /\ hist = [t \in Tasks |-> NoHist]
        /\ get = NoRequest
        /\ stream = NoRequest
        /\ delete = [pc |-> "idle"]

NextDelete ==
    \/ delete_job_lookup
    \/ delete_job_cache
    \/ delete_job_commit
    \/ \E t \in Tasks :
        \/ task_start(t)
        \/ update_job_progress_db(t)
        \/ update_job_progress_cache(t)
        \/ batch_loop(t)
        \/ upsert_commit(t)
        \/ except_block(t)
        \/ cancel_job_lookup(t)
        \/ cancel_job_flag(t)
        \/ cancel_job_commit(t)
        \/ cancel_job_cache(t)
        \/ revoke_received(t)

SpecDelete == InitDelete /\ [][NextDelete]_vars

(***************************************************************************)
(* One run over a file of two keys, its attempts failing at any upsert and *)
(* being retried, with one cancel request at any moment.                   *)
(***************************************************************************)
InitFailures ==
    /\ \E f \in RerunFiles : file = [t \in Tasks |-> IF t = "t1" THEN f ELSE NoFile]
    /\ upload = [t \in Tasks |-> IF t = "t1" THEN "done" ELSE "off"]
    /\ cancel = [t \in Tasks |-> IF t = "t1" THEN "idle" ELSE "off"]
    /\ revoke = [t \in Tasks |-> "no"]
    /\ worker = [t \in Tasks |->
                    IF t = "t1" THEN [IdleWorker EXCEPT !.pc = "queued"]
                    ELSE IdleWorker]
    /\ import_jobs =
          {[celery_task_id |-> "t1", status |-> PENDING, progress |-> 0,
            total_rows |-> NoneInt, processed_rows |-> 0, error_message |-> None]}
    /\ products = {}
    /\ redis = setex(EmptyRedis, job_key("t1"),
                     cache_data(Call(PENDING, 0, NoneInt, 0, None)))
    /\ create = NoCreate
    /\ now = 0
    /\ ids = 0
    /\ hist = [t \in Tasks |-> NoHist]
    /\ RequestsOff

NextFailures ==
    \E t \in Tasks :
        \/ task_start(t)
        \/ update_job_progress_db(t)
        \/ update_job_progress_cache(t)
        \/ batch_loop(t)
        \/ upsert_commit(t)
        \/ upsert_raise(t)
        \/ except_block(t)
        \/ cancel_job_lookup(t)
        \/ cancel_job_flag(t)
        \/ cancel_job_commit(t)
        \/ cancel_job_cache(t)
        \/ revoke_received(t)

SpecFailures == InitFailures /\ [][NextFailures]_vars

(***************************************************************************)
(* One upload and its task under fair scheduling: the request handler goes *)
(* on to its end, and the worker takes a queued task and runs it on.       *)
(***************************************************************************)
upload_csv_step == \E t \in Tasks :
    \/ upload_csv_enqueue(t)
    \/ upload_csv_create_job(t)
    \/ upload_csv_cache(t)

worker_step == \E t \in Tasks :
    \/ task_start(t)
    \/ update_job_progress_db(t)
    \/ update_job_progress_cache(t)
    \/ batch_loop(t)
    \/ upsert_commit(t)
    \/ upsert_raise(t)
    \/ except_block(t)

NextFair == upload_csv_step \/ worker_step

\* The worker can take a step for task t: the task is queued or running.
\* (This is ENABLED of the worker's step for t: every position of Running
\* has an action without further guard, and no revoke is sent here.)
worker_ready(t) == worker[t].pc \in Running \cup {"queued"}

\* Weak fairness of the worker's steps for each task, written with
\* worker_ready for the enabling condition and the change of the task's
\* record for the step: a task that is queued or running is not left
\* waiting forever.
worker_fair ==
    \A t \in Tasks :
        \/ []<>(~ worker_ready(t))
        \/ []<><<worker_ready(t) /\ worker'[t] # worker[t]>>_vars

SpecFair ==
    /\ Init
    /\ [][NextFair]_vars
    /\ WF_vars(upload_csv_step)
    /\ worker_fair

(***************************************************************************)
(* Properties                                                              *)
(***************************************************************************)
AtRest(t) == worker[t].pc \in {"success", "failure", "revoked"}

forward(s1, s2) ==
    \/ s1 = s2
    \/ s1 = PENDING /\ s2 \in {PROCESSING, COMPLETED, FAILED}
    \/ s1 = PROCESSING /\ s2 \in {COMPLETED, FAILED}

\* C1: the status of an ImportJob row only moves forward along
\* pending -> processing -> {completed | failed}, and a completed or failed
\* status never changes, whatever the worker's attempts and the cancel
\* request do.
C1_StatusOnlyMovesForward ==
    [][\A j1 \in import_jobs : \A j2 \in import_jobs' :
          j1.celery_task_id = j2.celery_task_id => forward(j1.status, j2.status)]_vars

\* C2: whenever the worker makes a status write for a task id, the ImportJob
\* row of that task id is there: no write finds the row missing.
C2_RowExistsAtEveryWorkerWrite ==
    [][\A t \in Tasks :
          worker[t].pc = "update_db" /\ worker'[t].pc = "update_cache"
              => has_job(t)]_vars

\* C3: once the cancellation flag has been set while the attempt stood
\* between batch N and the check before batch N+1, the run applies no further
\* batch, and when the run and the cancel request are over the row is failed
\* with the message 'Job cancelled by user'.
C3_CancelBetweenBatches ==
    /\ [][\A t \in Tasks : hist[t].flag_between => products' = products]_vars
    /\ [](\A t \in Tasks :
            hist[t].flag_between /\ AtRest(t) /\ cancel[t] = "done"
                => /\ job_of(t).status = FAILED
                   /\ job_of(t).error_message = JOB_CANCELLED_BY_USER)

\* C4: after cancel_job has accepted a request, the job's row ends failed
\* with the message 'Job cancelled by user', wherever the worker was.
C4_AcceptedCancelEndsFailed ==
    \A t \in Tasks :
        AtRest(t) /\ cancel[t] = "done"
            => /\ job_of(t).status = FAILED
               /\ job_of(t).error_message = JOB_CANCELLED_BY_USER

(***************************************************************************)
(* What the rows of a file mean, stated on the raw cells the files are     *)
(* written from and not computed by the normalizer: the expected key, the  *)
(* expected trimmed text, the rows that count.                             *)
(***************************************************************************)
ExpectedKey(raw) ==
    CASE raw = RAW_A -> <<"a">>
      [] raw = RAW_A2 -> <<"a">>
      [] raw = RAW_B -> <<"b">>
      [] raw = RAW_BLANK -> <<>>

ExpectedText(raw) ==
    CASE raw = RAW_X -> <<"x">>
      [] raw = RAW_Y -> <<"Y">>
      [] raw = RAW_D -> <<"d">>
      [] raw = RAW_BLANK -> <<>>
      [] raw = <<>> -> <<>>

IsValidRow(r) == ExpectedKey(r.sku) # <<>> /\ ExpectedText(r.name) # <<>>

\* The valid rows among rows lo..hi of a file, and the keys they carry.
ValidIn(f, lo, hi) ==
    {i \in lo..Min2(hi, Len(f.logical)) : IsValidRow(f.logical[i])}
KeysIn(f, lo, hi) == {ExpectedKey(f.logical[i].sku) : i \in ValidIn(f, lo, hi)}

\* The number of Records the first nb batches of a file write: per batch, the
\* number of distinct keys among its valid rows.
RECURSIVE WrittenBy(_, _)
WrittenBy(f, nb) ==
    IF nb = 0 THEN 0
    ELSE WrittenBy(f, nb - 1)
            + Cardinality(KeysIn(f, (nb - 1) * BatchSize + 1, nb * BatchSize))

NumBatches(f) == (Len(f.logical) + BatchSize - 1) \div BatchSize

EndedCompleted(t) ==
    worker[t].pc = "success" /\ has_job(t) /\ job_of(t).status = COMPLETED

\* C5: after a run that ended completed, each key of a valid row has exactly
\* one Record, whose name and description are those of the last valid row
\* with that key, and there is no other Record.
C5_LastValidRowWins ==
    \A t \in Tasks :
        EndedCompleted(t) =>
            LET f == file[t]
                n == Len(f.logical)
            IN  /\ \A k \in KeysIn(f, 1, n) :
                      LET last == Max({i \in ValidIn(f, 1, n) :
                                          ExpectedKey(f.logical[i].sku) = k})
                      IN  /\ Cardinality({r \in products : r.sku = k}) = 1
                          /\ \A r \in products :
                                r.sku = k =>
                                  /\ r.name = ExpectedText(f.logical[last].name)
                                  /\ r.description =
                                        ExpectedText(f.logical[last].description)
                /\ \A r \in products : r.sku \in KeysIn(f, 1, n)

\* A completed run over 'a'/x then ' b' then 'A '/' Y': the two spellings of
\* the key fall in different batches and the Record has the later name.
C5_Witness ==
    /\ EndedCompleted("t1")
    /\ Len(file["t1"].logical) = 3
    /\ file["t1"].logical[1] = LogicalRow(RAW_A, RAW_X, <<>>)
    /\ file["t1"].logical[2].sku = RAW_B
    /\ file["t1"].logical[3] = LogicalRow(RAW_A2, RAW_Y, RAW_D)
    /\ \E r \in products : r.sku = <<"a">> /\ r.name = <<"Y">> /\ r.description = <<"d">>

\* C9: a row with a blank key or a blank name leaves no trace: every Record
\* has the key and the name of a valid row already read, the count of
\* processed rows is the count of the valid rows' keys batch by batch, and
\* the run neither enters its except block nor marks the job failed.
C9_DefectRowsAreSkipped ==
    \A t \in Tasks :
        worker[t].pc \in Running =>
            LET f == file[t]
                w == worker[t]
                done == w.batches * BatchSize
            IN  /\ \A r \in products :
                      /\ r.sku # <<>>
                      /\ r.name # <<>>
                      /\ \E i \in ValidIn(f, 1, done) :
                            /\ r.sku = ExpectedKey(f.logical[i].sku)
                            /\ r.name = ExpectedText(f.logical[i].name)
                /\ w.processed_count = WrittenBy(f, w.batches)
                /\ w.pc # "except"
                /\ job_of(t).status # FAILED

\* A defect row between two valid rows of different keys: both valid rows
\* are written and processed_count is 2 of 3.
C9_Witness ==
    /\ worker["t1"].pc = "update_db"
    /\ worker["t1"].call.status = COMPLETED
    /\ Len(file["t1"].logical) = 3
    /\ ~ IsValidRow(file["t1"].logical[2])
    /\ file["t1"].logical[1].sku = RAW_A
    /\ file["t1"].logical[3].sku = RAW_B
    /\ worker["t1"].processed_count = 2
    /\ Cardinality(products) = 2

\* processed_rows values of one attempt never go down: the value of the
\* update the worker is about to make is not below the one published last.
PublishedNonDecreasing(t) ==
    worker[t].pc = "update_db"
        /\ worker[t].call.processed_rows # NoneInt
        /\ hist[t].last_rows # NoneInt
        => worker[t].call.processed_rows >= hist[t].last_rows

\* C10 as claimed: the published processed_rows values are non-decreasing and
\* the "completed" update publishes processed_rows = total_rows.
C10_EndsAtTotalRows ==
    \A t \in Tasks :
        /\ PublishedNonDecreasing(t)
        /\ worker[t].pc = "update_db" /\ worker[t].call.status = COMPLETED
              => worker[t].call.processed_rows = worker[t].call.total_rows

\* C10 as amended: the published processed_rows values are non-decreasing,
\* and the "completed" update publishes the number of rows written (per
\* batch, the distinct keys of its valid rows), which is at most total_rows
\* and equals it when no row is skipped and no key repeats within a batch.
C10_EndsAtRowsWritten ==
    \A t \in Tasks :
        /\ PublishedNonDecreasing(t)
        /\ worker[t].pc = "update_db" /\ worker[t].call.status = COMPLETED
              => LET f == file[t]
                     c == worker[t].call
                 IN  /\ c.processed_rows = WrittenBy(f, NumBatches(f))
                     /\ c.processed_rows <= c.total_rows
                     /\ c.total_rows = Len(f.logical)
                     /\ (\A k \in 1..NumBatches(f) :
                            Cardinality(KeysIn(f, (k - 1) * BatchSize + 1, k * BatchSize))
                              = Len(batches_of(t)[k]))
                          => c.processed_rows = c.total_rows

\* A run about to publish "completed" with 2 of 3 rows processed.
C10_Witness ==
    /\ worker["t1"].pc = "update_db"
    /\ worker["t1"].call.status = COMPLETED
    /\ worker["t1"].call.processed_rows = 2
    /\ worker["t1"].call.total_rows = 3
    /\ hist["t1"].last_rows = 2

\* A Record without the time of its last update.
Fields(r) ==
    [id |-> r.id, sku |-> r.sku, name |-> r.name, description |-> r.description,
     active |-> r.active, created_at |-> r.created_at]

\* C6: when the second run over the same file has ended completed, the
\* Records are those the first run left, key by key and field by field (the
\* time of the last update aside); and a batch that an attempt which raised
\* had committed creates no Record when a later attempt applies it again.
C6_RerunIsIdempotent ==
    /\ [](EndedCompleted("t2") /\ upload["t2"] = "done"
            => {Fields(r) : r \in products}
                  = {Fields(r) : r \in hist["t2"].snapshot})
    /\ [][\A t \in Tasks :
            /\ worker[t].pc = "upsert"
            /\ worker'[t].pc = "update_db"
            /\ worker[t].batches < hist[t].committed
            => /\ Cardinality(products') = Cardinality(products)
               /\ {r.sku : r \in products'} = {r.sku : r \in products}
               /\ ids' = ids]_vars

\* The second run has ended completed after an attempt of it raised with a
\* batch committed, and two Records are stored.
C6_Witness ==
    /\ EndedCompleted("t2")
    /\ upload["t2"] = "done"
    /\ hist["t2"].committed >= 1
    /\ worker["t2"].retries >= 1
    /\ Cardinality(products) = 2
    /\ Cardinality(hist["t2"].snapshot) = 2

\* Trimming and case folding over the characters of the model, written out
\* and not taken from the normalizers.
FoldChar(c) ==
    CASE c = "A" -> "a"
      [] c = "B" -> "b"
      [] c = "Y" -> "y"
      [] OTHER -> c
Folded(s) ==
    LET t == SelectSeq(s, LAMBDA c : c # " ")
    IN  [i \in 1..Len(t) |-> FoldChar(t[i])]

\* C7: no two Records have keys that are equal after trimming and case
\* folding, whatever the order of the batches of two jobs and of the steps
\* of a create request.
C7_KeysUniqueAfterFolding ==
    \A r1, r2 \in products : Folded(r1.sku) = Folded(r2.sku) => r1 = r2

\* Both jobs have written the key "a" from its two spellings, the create
\* request for "A " passed its check and was then refused by the index.
C7_Witness ==
    /\ create.pc = "error"
    /\ create.data.sku = RAW_A2
    /\ \A t \in Tasks : EndedCompleted(t) /\ job_of(t).processed_rows >= 1
    /\ \E i \in 1..Len(file["t1"].logical) : file["t1"].logical[i].sku = RAW_A
    /\ Cardinality({r \in products : r.sku = <<"a">>}) = 1

\* The rows of the batch an upsert is about to write.
BatchLo(t) == worker[t].batches * BatchSize + 1
BatchHi(t) == (worker[t].batches + 1) * BatchSize
LastIn(f, lo, hi, k) ==
    f.logical[Max({i \in ValidIn(f, lo, hi) : ExpectedKey(f.logical[i].sku) = k})]

\* C8: a committing upsert overwrites name, description and active (true) of
\* the Record of each key of its batch that exists, keeping id, key and
\* created_at; inserts exactly one Record for each key that does not exist;
\* and changes no other Record.
C8_UpsertFrame ==
    [][\A t \in Tasks :
          worker[t].pc = "upsert" /\ worker'[t].pc = "update_db"
          => LET f == file[t]
                 keys == KeysIn(f, BatchLo(t), BatchHi(t))
                 new == {k \in keys : ~ \E r \in products : r.sku = k}
             IN  /\ \A r \in products :
                       IF r.sku \in keys
                       THEN LET row == LastIn(f, BatchLo(t), BatchHi(t), r.sku)
                            IN  \E q \in products' :
                                  /\ q.id = r.id
                                  /\ q.sku = r.sku
                                  /\ q.created_at = r.created_at
                                  /\ q.name = ExpectedText(row.name)
                                  /\ q.description = ExpectedText(row.description)
                                  /\ q.active = TRUE
                       ELSE r \in products'
                 /\ \A k \in new :
                       /\ Cardinality({q \in products' : q.sku = k}) = 1
                       /\ \A q \in products' :
                             q.sku = k => \A r \in products : r.id # q.id
                 /\ Cardinality(products') = Cardinality(products) + Cardinality(new)
      ]_vars

\* An upsert has overwritten the inactive Record that the create request
\* made: it is active, has the imported name, and its id and created_at are
\* those of the creation.
C8_Witness ==
    /\ create.pc = "created"
    /\ create.data.active = FALSE
    /\ \E r \in products :
          /\ r.sku = create.normalized_sku
          /\ r.active = TRUE
          /\ r.name # create.data.name
          /\ r.updated_at > r.created_at
    /\ Cardinality(products) = 2

\* C11: whenever total_rows is set on an ImportJob row, processed_rows is at
\* most total_rows.
C11_ProcessedAtMostTotal ==
    \A j \in import_jobs :
        j.total_rows # NoneInt => j.processed_rows <= j.total_rows

\* C12: whenever total_rows of an ImportJob row is known and positive, the
\* row's progress is min(100, floor(processed_rows * 100 / total_rows)).
C12_ProgressIsFloorOfRatio ==
    \A j \in import_jobs :
        j.total_rows # NoneInt /\ j.total_rows > 0
            => j.progress = Min2(100, (j.processed_rows * 100) \div j.total_rows)

\* C13: the error_message of an ImportJob row is non-null only if the row's
\* status is failed.
C13_MessageOnlyWhenFailed ==
    \A j \in import_jobs : j.error_message # None => j.status = FAILED

\* C14: a progress update of the try block is followed by the next turn of
\* the batch loop or by the successful end of the task, whether or not its
\* write to Redis succeeds (the termination of the worker process aside).
C14_CacheFailureDoesNotAbort ==
    [][\A t \in Tasks :
          worker[t].pc = "update_cache" /\ worker[t].ret \in {"loop", "return"}
              => worker'[t].pc \in {"update_cache", "loop", "success", "revoked"}
      ]_vars

\* C15: when the attempts of a task whose file is missing or unreadable are
\* over, the job's row is failed and has an error_message.
C15_BadInputEndsFailed ==
    \A t \in Tasks :
        /\ worker[t].pc = "failure"
        /\ has_job(t)
        /\ ~ file[t].exists \/ file[t].bad_at # 0
        => /\ job_of(t).status = FAILED
           /\ job_of(t).error_message # None

\* C16: when _upsert_batch has raised and the cancellation flag is not set,
\* the except block leaves the products as they are, calls the status
\* update with failed and the exception's text, and will re-raise.
C16_UpsertFailureIsReported ==
    [][\A t \in Tasks :
          /\ worker[t].pc = "except"
          /\ worker[t].err \in UpsertErrors
          /\ ~ is_job_cancelled(t)
          /\ worker'[t].pc = "update_db"
          => /\ products' = products
             /\ worker'[t].call.status = FAILED
             /\ worker'[t].call.error_message = worker[t].err
             /\ ~ worker'[t].is_cancelled
      ]_vars

\* C17: an attempt that stopped at the flag check (it raised 'Task was
\* cancelled by user') is never followed by another attempt.
C17_CancelledRunIsNotRetried ==
    [][\A t \in Tasks :
          worker[t].err = TASK_WAS_CANCELLED => worker'[t].pc # "queued"]_vars

\* C18: the except block takes a failure for a cancellation (message 'Job
\* cancelled by user', no re-raise) only if the cancellation flag of the task
\* is set.
C18_CancelledOnlyWithFlag ==
    [][\A t \in Tasks :
          /\ worker[t].pc = "except"
          /\ worker'[t].pc = "update_db"
          /\ \/ worker'[t].is_cancelled
             \/ worker'[t].call.error_message = JOB_CANCELLED_BY_USER
          => is_job_cancelled(t)
      ]_vars

\* C19: a task is attempted at most 1 + max_retries times; once its attempts
\* are used up no attempt starts, and (no cancel request made) the job's row
\* is failed.
C19_AttemptsAreBounded ==
    /\ [](\A t \in Tasks :
            /\ worker[t].retries <= max_retries
            /\ worker[t].pc = "failure" /\ has_job(t) /\ cancel[t] = "idle"
                  => job_of(t).status = FAILED)
    /\ [][\A t \in Tasks :
            worker[t].pc = "failure" => worker'[t].pc = "failure"]_vars

\* C20: the call that writes completed is made with progress 100 when the
\* batch loop has gone through every batch of the file and the Record of
\* every key of a valid row is stored; a row that is completed has progress
\* 100 and those Records.
C20_CompletedAfterEveryBatch ==
    \A t \in Tasks :
        LET f == file[t]
            keys == KeysIn(f, 1, Len(f.logical))
        IN  /\ worker[t].pc = "update_db" /\ worker[t].call.status = COMPLETED
                  => /\ worker[t].call.progress = 100
                     /\ worker[t].batches = NumBatches(f)
                     /\ keys \subseteq {r.sku : r \in products}
            /\ has_job(t) /\ job_of(t).status = COMPLETED
                  => /\ job_of(t).progress = 100
                     /\ keys \subseteq {r.sku : r \in products}

\* A job of three rows is completed with progress 100 and one row
\* processed: the first batch was skipped whole, the last one written.
C20_Witness ==
    /\ has_job("t1")
    /\ job_of("t1").status = COMPLETED
    /\ job_of("t1").progress = 100
    /\ job_of("t1").total_rows = 3
    /\ job_of("t1").processed_rows = 1
    /\ ~ IsValidRow(file["t1"].logical[1])
    /\ IsValidRow(file["t1"].logical[3])
    /\ Cardinality(products) = 1

\* The key a cell of DistinctFiles stands for, and ceil(n / b).
KeyOfCell(cell) == <<"k", cell[2]>>
CeilDiv(n, b) == (n + b - 1) \div b

\* C21: over a file of n valid rows with pairwise distinct keys, the k-th
\* commit of the run writes exactly rows (k-1)b+1 .. min(kb, n) of the file
\* (b rows, or n mod b rows in a shorter last batch); the completed call is
\* made after ceil(n/b) batches with progress 100 and processed_rows n, and
\* the run ends with the row completed, progress 100, processed_rows n.
C21_BatchesOfDistinctRows ==
    /\ [](\A t \in Tasks :
            LET n == Len(file[t].logical) IN
            /\ worker[t].pc = "update_db" /\ worker[t].call.status = COMPLETED
                  => /\ worker[t].batches = CeilDiv(n, BatchSize)
                     /\ worker[t].call.progress = 100
                     /\ worker[t].call.processed_rows = n
            /\ worker[t].pc = "success"
                  => /\ job_of(t).status = COMPLETED
                     /\ job_of(t).progress = 100
                     /\ job_of(t).processed_rows = n
                     /\ Cardinality(products) = n)
    /\ [][\A t \in Tasks :
            worker[t].pc = "upsert" /\ worker'[t].pc = "update_db"
                => LET n == Len(file[t].logical)
                       k == worker[t].batches + 1
                       lo == (k - 1) * BatchSize + 1
                       hi == IF k * BatchSize <= n THEN k * BatchSize ELSE n
                       written == {r \in products' : r \notin products}
                   IN  /\ worker'[t].batches = k
                       /\ {r.sku : r \in written} =
                             {KeyOfCell(file[t].logical[i].sku) : i \in lo..hi}
                       /\ Cardinality(written) =
                             IF k * BatchSize <= n THEN BatchSize ELSE n % BatchSize
                       /\ worker'[t].processed_count = hi]_vars

\* A file of one row more than a batch has been imported: completed, with
\* as many rows processed as the file has.
C21_Witness ==
    /\ worker["t1"].pc = "success"
    /\ Len(file["t1"].logical) = BatchSize + 1
    /\ job_of("t1").status = COMPLETED
    /\ job_of("t1").processed_rows = BatchSize + 1
    /\ Cardinality(products) = BatchSize + 1

\* The columns a file has, read off the layout its header was written from.
Layouts == {H_PLAIN, H_MESSY, H_NO_SKU, H_NO_DESCRIPTION}
HasColumn(f, role) ==
    \E layout \in Layouts :
        /\ layout.header = f.header
        /\ \E i \in 1..Len(layout.roles) : layout.roles[i] = role

\* C22: an upload whose header has no identifier column never gets past
\* validation: its task is never enqueued, no ImportJob row and no cache
\* entry exist for it.
C22_NoKeyColumnIsRejected ==
    \A t \in Tasks :
        upload[t] # "off" /\ ~ HasColumn(file[t], "sku")
            => /\ upload[t] \in {"idle", "rejected"}
               /\ worker[t].pc = "none"
               /\ ~ has_job(t)
               /\ job_key(t) \notin DOMAIN redis

\* The upload of a file without an identifier column has been rejected.
C22_Witness ==
    /\ upload["t1"] = "rejected"
    /\ ~ HasColumn(file["t1"], "sku")
    /\ HasColumn(file["t1"], "name")

\* C23: an upload whose header has the identifier column and the name
\* column is not rejected, with or without a description column.
C23_DescriptionIsOptional ==
    \A t \in Tasks :
        /\ upload[t] # "off"
        /\ HasColumn(file[t], "sku")
        /\ HasColumn(file[t], "name")
        => upload[t] # "rejected"

\* The task id of the job a request id names.
TaskNamed(x) == CHOOSE t \in Tasks : x \in {t, job_id_of(t)}

\* C24: a status request that names an existing job by its id or by its
\* task id does not fail; when a cache entry of the job's task id exists at
\* the cache lookup it answers with the five values of that entry, and
\* without one it answers with the five values of the job's row.
C24_StatusPrefersCache ==
    /\ [](get.pc \in {"error", "not_found"} => ~ get.existed)
    /\ [][get.pc = "resolved" /\ get.existed /\ get' # get
            => LET k == job_key(TaskNamed(get.job_id))
               IN  IF k \in DOMAIN redis
                   THEN get'.pc = "returned" /\ get'.result = answer(redis[k])
                   ELSE get'.pc = "fallback"]_vars
    /\ [][get.pc = "fallback" /\ get.existed /\ get' # get
            => /\ get'.pc = "returned"
               /\ \/ get'.result = answer(job_of(TaskNamed(get.job_id)))
                  \/ get.import_job # NoJob
                        /\ get'.result = answer(get.import_job)]_vars

\* C25: in an event stream, the latest update differs from the one emitted
\* before it in status, progress or processed_rows; no update but the latest
\* has status completed or failed; once the latest has, the close event has
\* been sent and the generator has ended, and an ended generator emits
\* nothing more.
C25_StreamEmitsChangesThenCloses ==
    /\ [](stream.pc \in {"polling", "closed", "ended"} =>
            /\ stream.prev # NoUpdate =>
                  \/ stream.cur.status # stream.prev.status
                  \/ stream.cur.progress # stream.prev.progress
                  \/ stream.cur.processed_rows # stream.prev.processed_rows
            /\ stream.prev.status \notin {COMPLETED, FAILED}
            /\ stream.cur.status \in {COMPLETED, FAILED}
                  <=> stream.close /\ stream.pc = "closed")
    /\ [][stream.pc \in {"closed", "ended"} => stream' = stream]_vars

\* A stream has sent a processing update, then an update with status
\* completed, and the close event.
C25_Witness ==
    /\ stream.pc = "closed"
    /\ stream.close
    /\ stream.prev.status = PROCESSING
    /\ stream.cur.status = COMPLETED
    /\ stream.cur.progress = 100

\* C26: a step that changes the status or the progress of an existing row,
\* or of an existing cache entry, is a write of the job's own run, and a step
\* that sets the cancellation flag is the flag write of a cancel request.
C26_OnlyTheRunWritesStatus ==
    [][\A t \in Tasks :
          /\ /\ has_job(t) /\ has_job(t)'
             /\ \/ job_of(t)'.status # job_of(t).status
                \/ job_of(t)'.progress # job_of(t).progress
             => worker[t].pc = "update_db" /\ worker'[t].pc = "update_cache"
          /\ /\ job_key(t) \in DOMAIN redis /\ job_key(t) \in DOMAIN redis'
             /\ \/ redis'[job_key(t)].status # redis[job_key(t)].status
                \/ redis'[job_key(t)].progress # redis[job_key(t)].progress
             => worker[t].pc = "update_cache" /\ worker'[t] # worker[t]
          /\ ~ is_job_cancelled(t) /\ is_job_cancelled(t)'
             => cancel[t] = "accepted" /\ cancel'[t] = "flagged"
      ]_vars

\* C27: at the step that completes delete_job for a job, the job's row, its
\* cache entry job:<task_id> and its flag job:<task_id>:cancelled are gone.
C27_DeleteClearsRowAndCache ==
    [][delete.pc = "uncached" /\ delete'.pc = "done"
          => LET t == delete.celery_task_id
             IN  /\ ~ has_job(t)'
                 /\ job_key(t) \notin DOMAIN redis'
                 /\ cancelled_key(t) \notin DOMAIN redis']_vars

\* C28: a batch that has started is followed by its commit or by its
\* failure, and a batch that has committed is followed by the progress
\* update that publishes it: the worker is never stopped in between.
C28_CancelNeverInterruptsABatch ==
    [][\A t \in Tasks :
          /\ worker[t].pc = "upsert"
                => worker'[t].pc \in {"upsert", "update_db", "except"}
          /\ (/\ worker[t].pc \in {"update_db", "update_cache"}
              /\ worker[t].ret = "loop"
              /\ worker[t].batches > 0)
                => worker'[t].pc \in {"update_db", "update_cache", "loop"}
      ]_vars

\* C29: no step lowers the processed_rows of an ImportJob row, whichever
\* attempt of the task makes it.
C29_ProcessedRowsNeverDecrease ==
    [][\A t \in Tasks :
          has_job(t) /\ has_job(t)'
              => job_of(t)'.processed_rows >= job_of(t).processed_rows]_vars

\* C30: every progress value an attempt publishes is an integer from 0 to
\* 100 and is not below the value the same attempt published before it.
C30_ProgressInRangeAndNonDecreasing ==
    \A t \in Tasks :
        worker[t].pc = "update_db"
            => /\ worker[t].call.progress \in 0..100
               /\ worker[t].call.progress >= hist[t].last_progress


(***************************************************************************)
(* Batches are committed whole and in input order                          *)
(***************************************************************************)
\* The attempt of t has passed its first worker[t].batches batches.
Passed(t) == worker[t].pc \in Running \cup {"revoked"} /\ worker[t].session = "open"

\* C31: the table of Records changes only when an attempt commits the batch
\* that follows the ones it has passed, and then every key of that batch has
\* its Record with the values of the batch's last valid row for the key; in
\* every state every key of the batches an attempt has passed has exactly one
\* Record, no Record has a key of a later batch only, and during the first
\* attempt each Record has the values of the key's last valid row among the
\* batches passed: also in the except block, after a cancellation, and after
\* the worker was killed.
C31_CommittedBatchesAreAPrefix ==
    /\ [][products' # products =>
            \E t \in Tasks :
               /\ worker[t].pc = "upsert"
               /\ worker'[t].batches = worker[t].batches + 1
               /\ \A k \in KeysIn(file[t], BatchLo(t), BatchHi(t)) :
                     LET row == LastIn(file[t], BatchLo(t), BatchHi(t), k)
                     IN  \E q \in products' :
                            /\ q.sku = k
                            /\ q.name = ExpectedText(row.name)
                            /\ q.description = ExpectedText(row.description)
         ]_vars
    /\ [](\A t \in Tasks :
            Passed(t) =>
               LET f == file[t]
                   done == worker[t].batches * BatchSize
               IN  /\ \A k \in KeysIn(f, 1, done) :
                         Cardinality({r \in products : r.sku = k}) = 1
                   /\ \A r \in products :
                         r.sku \in KeysIn(f, 1, Max({done, hist[t].committed * BatchSize}))
                   /\ worker[t].retries = 0 =>
                         \A r \in products :
                            LET row == LastIn(f, 1, done, r.sku)
                            IN  /\ r.name = ExpectedText(row.name)
                                /\ r.description = ExpectedText(row.description))

\* A first attempt over three rows that met the cancellation flag before its
\* second batch: the except block has made its call and the two Records of
\* the first batch are there.
C31_Witness ==
    /\ worker["t1"].pc = "update_db"
    /\ worker["t1"].call.status = FAILED
    /\ worker["t1"].retries = 0
    /\ worker["t1"].batches = 1
    /\ Len(file["t1"].logical) = 3
    /\ Cardinality(products) = 2
    /\ is_job_cancelled("t1")

(***************************************************************************)
(* The cache entry and the row after a status update                       *)
(***************************************************************************)
\* C32: when _update_job_progress returns and no cancel request has been
\* made, the row of the job exists and the cache entry holds the row's
\* status, progress, total_rows, processed_rows and error_message, whatever
\* the status written.
C32_CacheMirrorsRowAfterUpdate ==
    [][\A t \in Tasks :
          (/\ worker[t].pc = "update_cache"
           /\ redis' # redis
           /\ cancel[t] \in {"idle", "off"})
          => \E j \in import_jobs' :
                /\ j.celery_task_id = t
                /\ redis'[job_key(t)] =
                      Call(j.status, j.progress, j.total_rows, j.processed_rows,
                           j.error_message)
      ]_vars

(***************************************************************************)
(* The progress value published after a batch                              *)
(***************************************************************************)
\* C33: the progress update that follows a committed batch publishes
\* min(100, floor(processed_rows * 100 / total_rows)), or 0 when total_rows
\* is 0, with processed_rows the count of rows written so far in the run.
C33_PublishedProgressIsFloor ==
    \A t \in Tasks :
        LET c == worker[t].call IN
        (/\ worker[t].pc = "update_db"
         /\ worker[t].ret = "loop"
         /\ c.status = PROCESSING
         /\ worker[t].processed_count > 0)
        => /\ c.processed_rows = worker[t].processed_count
           /\ c.progress = IF c.total_rows > 0
                           THEN Min2(100, (c.processed_rows * 100) \div c.total_rows)
                           ELSE 0

(***************************************************************************)
(* The cancellation flag                                                   *)
(***************************************************************************)
\* C34: no step removes or changes the cancellation flag once it is set, and
\* with the flag set no attempt, first or retried, goes from the check at the
\* top of its loop to the upsert of a batch: it raises there, or has no batch
\* left.
C34_FlagStaysSet ==
    [][\A t \in Tasks :
          cancelled_key(t) \in DOMAIN redis
          => /\ cancelled_key(t) \in DOMAIN redis'
             /\ redis'[cancelled_key(t)] = redis[cancelled_key(t)]
             /\ worker[t].pc = "loop" /\ worker'[t] # worker[t]
                   => \/ /\ worker'[t].pc = "except"
                         /\ worker'[t].err \in {TASK_WAS_CANCELLED, ERR_DECODE}
                      \/ /\ worker'[t].pc = "update_db"
                         /\ worker'[t].call.status = COMPLETED
                         /\ worker[t].batches = Len(batches_of(t))
                      \/ worker'[t].pc = "revoked"
      ]_vars

\* The flag was set while the task waited for a retry: the retried attempt
\* has raised at its first check, with nothing more written.
C34_Witness ==
    /\ worker["t1"].retries > 0
    /\ worker["t1"].pc = "except"
    /\ worker["t1"].err = TASK_WAS_CANCELLED
    /\ worker["t1"].batches = 0
    /\ cancelled_key("t1") \in DOMAIN redis
    /\ products = {}

C36_EndedJobIsNotCancelled ==
    /\ [][\A t \in Tasks :
            /\ (/\ cancel[t] = "idle" /\ cancel'[t] # "idle"
                 /\ has_job(t) /\ job_of(t).status \in {COMPLETED, FAILED})
                => /\ cancel'[t] = "refused"
                   /\ redis' = redis
                   /\ import_jobs' = import_jobs
            /\ cancel[t] = "refused" => cancel'[t] = "refused"
            /\ (cancel[t] # "accepted" /\ cancel'[t] = "accepted")
                => has_job(t) /\ job_of(t).status \in {PENDING, PROCESSING}
         ]_vars
    /\ [](\A t \in Tasks :
            cancel[t] = "refused" => cancelled_key(t) \notin DOMAIN redis)

\* A cancel request for a job that had completed was refused: the row is
\* still completed, the cache entry too, and there is no flag.
C36_Witness ==
    /\ cancel["t1"] = "refused"
    /\ has_job("t1") /\ job_of("t1").status = COMPLETED
    /\ redis[job_key("t1")].status = COMPLETED
    /\ cancelled_key("t1") \notin DOMAIN redis

(***************************************************************************)
(* Every accepted upload ends                                              *)
(***************************************************************************)
\* C37: under fair scheduling, once an upload has been accepted and its task
\* enqueued, the job's row eventually exists with status completed or failed.
C37_AcceptedUploadEnds ==
    \A t \in Tasks :
        (upload[t] = "enqueued")
            ~> (has_job(t) /\ job_of(t).status \in {COMPLETED, FAILED})

(***************************************************************************)
(* Status reads after the run has ended                                    *)
(***************************************************************************)
\* C38: a status request that has found the job and makes its cache lookup
\* after the worker has published completed, while the job's cache entry
\* exists, answers completed.
C38_ReadAfterEndIsTerminal ==
    [][\A t \in Tasks :
          (/\ get.pc = "resolved"
           /\ get' # get
           /\ get.celery_task_id = t
           /\ worker[t].pc = "success"
           /\ job_key(t) \in DOMAIN redis)
          => /\ get'.pc = "returned"
             /\ get'.result.status = COMPLETED
      ]_vars

(***************************************************************************)
(* A status request that names no job                                      *)
(***************************************************************************)
\* C39: a status request whose identifier named no job when it was resolved
\* does not end in an error other than 'Job not found', whatever the shape of
\* the identifier.
C39_UnknownJobIsNotFound ==
    (get.pc \notin {"off", "idle"} /\ ~ get.existed) => get.pc # "error"

(***************************************************************************)
(* Two imports at once over shared keys                                    *)
(***************************************************************************)
\* Record r has the name and the description of valid row i of file f.
FromRow(r, f, i) ==
    /\ r.sku = ExpectedKey(f.logical[i].sku)
    /\ r.name = ExpectedText(f.logical[i].name)
    /\ r.description = ExpectedText(f.logical[i].description)

\* C40: with two imports running at once, every Record that an import has
\* written (any Record but one the create request made and no import has
\* touched, which has no description) has the name and the description of
\* one valid row of one of the two files; and once both jobs are completed,
\* the Record of each key the files share has those of the last valid row
\* with that key of one of the two files.
C40_RecordsComeFromOneRow ==
    /\ \A r \in products :
          \/ r.description = None /\ create.pc = "created"
                /\ r.sku = create.normalized_sku /\ r.name = create.data.name
          \/ \E t \in Tasks :
                \E i \in ValidIn(file[t], 1, Len(file[t].logical)) :
                   FromRow(r, file[t], i)
    /\ (\A t \in Tasks : EndedCompleted(t)) =>
          \A k \in KeysIn(file["t1"], 1, MaxRows) \cap KeysIn(file["t2"], 1, MaxRows) :
             /\ Cardinality({r \in products : r.sku = k}) = 1
             /\ \A r \in products :
                   r.sku = k =>
                     \E t \in Tasks :
                        FromRow(r, file[t],
                                Max({i \in ValidIn(file[t], 1, MaxRows) :
                                        ExpectedKey(file[t].logical[i].sku) = k}))

\* Both jobs are completed, both files have both keys with different names,
\* and the import of the first file wrote key b before and key a after the
\* single batch of the second: Record a is the first file's, Record b the
\* second's.
C40_Witness ==
    /\ \A t \in Tasks : EndedCompleted(t)
    /\ KeysIn(file["t1"], 1, MaxRows) = {<<"a">>, <<"b">>}
    /\ KeysIn(file["t2"], 1, MaxRows) = {<<"a">>, <<"b">>}
    /\ \E r \in products : r.sku = <<"a">> /\ r.name = <<"x">> /\ r.description = <<>>
    /\ \E r \in products : r.sku = <<"b">> /\ r.name = <<"Y">> /\ r.description = <<>>

====
